---------------------------- MODULE Spec2Model ----------------------------
(***************************************************************************)
(* BlazeKVDB: sharded in-memory engine, append-only log with a background  *)
(* writer, snapshotter, recovery, and the command path that connects them. *)
(*                                                                         *)
(* Keys and log lines are sequences of one-character strings; values are   *)
(* sequences of bytes (0..255).  The configuration modelled is the one the *)
(* durability contract is about: persistence.enabled and snapshot_enabled  *)
(* are both true.                                                          *)
(***************************************************************************)
EXTENDS Integers, Sequences, FiniteSets, TLC

(***************************************************************************)
(* Bounds of the model.                                                    *)
(***************************************************************************)
MaxCmds == 3         \* commands issued in one behaviour of Spec
MaxDurableCmds == 2  \* commands issued in one behaviour of SpecDurable
MaxSnapshots == 1    \* create_snapshot calls in one behaviour
MaxCrashes == 1         \* process crashes in one behaviour
MaxLogLines == 3        \* lines of the log found by a recovery
MaxSnapCalls == 6       \* Snapshotter::create_snapshot calls in SpecSnapshot
MaxTicks == 11          \* last reading of the clock in SpecSnapshot
MaxEngineCalls == 5     \* direct MemoryEngine calls in SpecEngine
MaxWireLines == 4       \* lines one connection sends in SpecWire
MaxConnLines == 3       \* lines the client sends in SpecServer
MaxMiddleware == 2      \* middleware registered in SpecDispatch
MaxBatchCalls == 2      \* execute_batch calls in SpecDispatch
MaxConcWrites == 3      \* execute calls of the concurrent writers
MaxSubmits == 3         \* log_operation calls in SpecOrder
MaxConcCalls == 4       \* set/delete calls started in SpecEngineConc

(***************************************************************************)
(* Program constants.                                                      *)
(***************************************************************************)
EntryOverhead == 64            \* Shard::estimate_size overhead
MaxKeyLen == 512               \* SetCommand::validate
MaxValueLen == 10485760        \* SetCommand::validate, 10 * 1024 * 1024
KEEP_SNAPSHOTS == 5            \* Snapshotter::cleanup_old_snapshots
TicksPerSecond == 2            \* clock readings within one second of a file name
ShardCount == 2                \* StorageConfig.shard_count of the modelled run

Keys == {<<>>, <<"a">>, <<"b">>}
Values == {<<>>, <<118>>}
MaxMemoryChoices == {131, 1000}      \* config.storage.max_memory
FsyncEveryChoices == {0, 2, 2147483647} \* Always, EveryN(2), Never
EngineMaxMemory == {131, 200}        \* max_memory of the directly called engine

ExecClients == {"c1"}    \* tasks calling BlazeKVDB::execute
TcpConn == "tcp"         \* a task running ConnectionHandler::handle_connection
ConcWriters == {"w1", "w2"}  \* tasks calling BlazeKVDB::execute at the same time
Callers == ExecClients \cup {TcpConn} \cup ConcWriters

(***************************************************************************)
(* Generic helpers.                                                        *)
(***************************************************************************)
Range(s) == {s[i] : i \in 1..Len(s)}

RECURSIVE SumOver(_, _)
SumOver(S, f) ==
    IF S = {} THEN 0
    ELSE LET x == CHOOSE y \in S : TRUE IN f[x] + SumOver(S \ {x}, f)

(***************************************************************************)
(* base64 STANDARD engine: alphabet A-Z a-z 0-9 + /, canonical '=' padding,*)
(* trailing bits must be zero on decode.                                   *)
(***************************************************************************)
B64Chars ==
    << "A","B","C","D","E","F","G","H","I","J","K","L","M","N","O","P",
       "Q","R","S","T","U","V","W","X","Y","Z","a","b","c","d","e","f",
       "g","h","i","j","k","l","m","n","o","p","q","r","s","t","u","v",
       "w","x","y","z","0","1","2","3","4","5","6","7","8","9","+","/" >>

B64Char(n) == B64Chars[n + 1]

IsB64Char(c) == \E i \in 1..64 : B64Chars[i] = c

B64Index(c) == (CHOOSE i \in 1..64 : B64Chars[i] = c) - 1

RECURSIVE Base64Encode(_)
Base64Encode(bytes) ==
    IF Len(bytes) = 0 THEN <<>>
    ELSE IF Len(bytes) = 1 THEN
        LET n == bytes[1] * 65536
        IN << B64Char(n \div 262144), B64Char((n \div 4096) % 64), "=", "=" >>
    ELSE IF Len(bytes) = 2 THEN
        LET n == bytes[1] * 65536 + bytes[2] * 256
        IN << B64Char(n \div 262144), B64Char((n \div 4096) % 64),
              B64Char((n \div 64) % 64), "=" >>
    ELSE
        LET n == bytes[1] * 65536 + bytes[2] * 256 + bytes[3]
        IN << B64Char(n \div 262144), B64Char((n \div 4096) % 64),
              B64Char((n \div 64) % 64), B64Char(n % 64) >>
           \o Base64Encode(SubSeq(bytes, 4, Len(bytes)))

\* Decoding of one group of four characters; last says whether padding is
\* allowed in it.  Returns [ok |-> BOOLEAN, bytes |-> Seq(0..255)].
Base64DecodeQuad(q, last) ==
    LET bad == [ok |-> FALSE, bytes |-> <<>>] IN
    IF ~(IsB64Char(q[1]) /\ IsB64Char(q[2])) THEN bad
    ELSE
        LET s1 == B64Index(q[1])
            s2 == B64Index(q[2])
        IN
        IF q[3] = "=" THEN
            IF last /\ q[4] = "=" /\ s2 % 16 = 0
            THEN [ok |-> TRUE, bytes |-> << s1 * 4 + s2 \div 16 >>]
            ELSE bad
        ELSE IF ~IsB64Char(q[3]) THEN bad
        ELSE
            LET s3 == B64Index(q[3]) IN
            IF q[4] = "=" THEN
                IF last /\ s3 % 4 = 0
                THEN [ok |-> TRUE,
                      bytes |-> << s1 * 4 + s2 \div 16,
                                   (s2 % 16) * 16 + s3 \div 4 >>]
                ELSE bad
            ELSE IF ~IsB64Char(q[4]) THEN bad
            ELSE
                LET s4 == B64Index(q[4]) IN
                [ok |-> TRUE,
                 bytes |-> << s1 * 4 + s2 \div 16,
                              (s2 % 16) * 16 + s3 \div 4,
                              (s3 % 4) * 64 + s4 >>]

RECURSIVE Base64Decode(_)
Base64Decode(chars) ==
    IF Len(chars) = 0 THEN [ok |-> TRUE, bytes |-> <<>>]
    ELSE IF Len(chars) < 4 THEN [ok |-> FALSE, bytes |-> <<>>]
    ELSE
        LET head == Base64DecodeQuad(SubSeq(chars, 1, 4), Len(chars) = 4)
            rest == Base64Decode(SubSeq(chars, 5, Len(chars)))
        IN  IF head.ok /\ rest.ok
            THEN [ok |-> TRUE, bytes |-> head.bytes \o rest.bytes]
            ELSE [ok |-> FALSE, bytes |-> <<>>]

(***************************************************************************)
(* Operation and its log-line codec (storage/persistence/aof.rs).          *)
(***************************************************************************)
OpPut(k, v) == [type |-> "Put", key |-> k, value |-> v]
OpDelete(k) == [type |-> "Delete", key |-> k, value |-> <<>>]

\* The entry without its terminating "\n"; the file is kept as a sequence
\* of lines.
to_aof_entry(op) ==
    IF op.type = "Put"
    THEN <<"S", "E", "T", " ">> \o op.key \o <<" ">> \o Base64Encode(op.value)
    ELSE <<"D", "E", "L", " ">> \o op.key

IsWhitespace(c) == c \in {" ", "\t", "\n", "\r"}

RECURSIVE TrimStart(_)
TrimStart(s) ==
    IF Len(s) > 0 /\ IsWhitespace(s[1]) THEN TrimStart(Tail(s)) ELSE s

RECURSIVE TrimEnd(_)
TrimEnd(s) ==
    IF Len(s) > 0 /\ IsWhitespace(s[Len(s)])
    THEN TrimEnd(SubSeq(s, 1, Len(s) - 1)) ELSE s

Trim(s) == TrimEnd(TrimStart(s))

\* str::split(' '): every single space separates, empty parts are kept.
RECURSIVE SplitSpace(_)
SplitSpace(s) ==
    IF \A i \in 1..Len(s) : s[i] # " " THEN << s >>
    ELSE LET i == CHOOSE j \in 1..Len(s) :
                     s[j] = " " /\ \A h \in 1..(j - 1) : s[h] # " "
         IN << SubSeq(s, 1, i - 1) >> \o SplitSpace(SubSeq(s, i + 1, Len(s)))

RECURSIVE JoinSpace(_)
JoinSpace(parts) ==
    IF Len(parts) = 0 THEN <<>>
    ELSE IF Len(parts) = 1 THEN parts[1]
    ELSE parts[1] \o <<" ">> \o JoinSpace(Tail(parts))

\* Returns [ok |-> BOOLEAN, op |-> Operation].
from_aof_entry(line) ==
    LET parts == SplitSpace(Trim(line))
        bad == [ok |-> FALSE, op |-> OpDelete(<<>>)]
    IN
    IF parts[1] = <<"S", "E", "T">> /\ Len(parts) >= 3 THEN
        LET dec == Base64Decode(JoinSpace(SubSeq(parts, 3, Len(parts))))
        IN  IF dec.ok THEN [ok |-> TRUE, op |-> OpPut(parts[2], dec.bytes)]
            ELSE bad
    ELSE IF parts[1] = <<"D", "E", "L">> /\ Len(parts) = 2 THEN
        [ok |-> TRUE, op |-> OpDelete(parts[2])]
    ELSE bad

\* A read_operations that gives up at the first line it cannot parse.
RECURSIVE read_operationsStopAtBad(_)
read_operationsStopAtBad(lines) ==
    IF Len(lines) = 0 THEN <<>>
    ELSE IF Len(Trim(lines[1])) = 0 THEN read_operationsStopAtBad(Tail(lines))
    ELSE LET r == from_aof_entry(lines[1])
         IN  IF r.ok THEN << r.op >> \o read_operationsStopAtBad(Tail(lines))
             ELSE <<>>

\* AppendOnlyFile::read_operations over the lines of a file.
RECURSIVE read_operations(_)
read_operations(lines) ==
    IF Len(lines) = 0 THEN <<>>
    ELSE
        LET rest == read_operations(Tail(lines))
            line == lines[1]
        IN  IF Len(Trim(line)) = 0 THEN rest
            ELSE LET r == from_aof_entry(line)
                 IN  IF r.ok THEN << r.op >> \o rest ELSE rest

(***************************************************************************)
(* MemoryEngine (storage/engine/memory.rs).  An engine value is a record   *)
(*   data             : the union of the shard maps, a function whose      *)
(*                      domain is the set of stored keys                   *)
(*   shard_size       : per-shard byte counter                             *)
(*   total_memory     : process-wide byte counter                          *)
(*   total_operations, hit_count, miss_count : metrics                    *)
(*   max_memory       : config.max_memory                                  *)
(***************************************************************************)
Shards == 0..(ShardCount - 1)

EmptyMap == [x \in {} |-> <<>>]

MemoryEngineNew(maxMemory) ==
    [data |-> EmptyMap,
     shard_size |-> [s \in Shards |-> 0],
     total_memory |-> 0,
     total_operations |-> 0,
     hit_count |-> 0,
     miss_count |-> 0,
     max_memory |-> maxMemory]

estimate_size(k, v) == Len(k) + Len(v) + EntryOverhead

\* Stand-in for DefaultHasher: a fixed function of the key's characters.
CharCode(c) == IF c = "a" THEN 97 ELSE IF c = "b" THEN 98 ELSE 32

RECURSIVE KeyHash(_)
KeyHash(k) == IF Len(k) = 0 THEN 0 ELSE CharCode(k[1]) + KeyHash(Tail(k))

get_shard_index(k) == KeyHash(k) % ShardCount

\* A limit check that looks at the current total only.
check_memory_limitCurrentOnly(e, additional_size) ==
    ~(e.total_memory > e.max_memory)

check_memory_limit(e, additional_size) ==
    ~(e.total_memory + additional_size > e.max_memory)

update_memory(e, delta) ==
    IF delta > 0
    THEN [e EXCEPT !.total_memory = @ + delta]
    ELSE [e EXCEPT !.total_memory = @ - (0 - delta)]

MapPut(m, k, v) == [x \in (DOMAIN m) \cup {k} |-> IF x = k THEN v ELSE m[x]]

MapRemove(m, k) == [x \in (DOMAIN m) \ {k} |-> m[x]]

\* MemoryEngine::get: [value, found, eng].
\* A get that does not count the keys it does not find.
EngineGetNoMiss(e, k) ==
    LET e1 == [e EXCEPT !.total_operations = @ + 1] IN
    IF k \in DOMAIN e.data
    THEN [found |-> TRUE, value |-> e.data[k],
          eng |-> [e1 EXCEPT !.hit_count = @ + 1]]
    ELSE [found |-> FALSE, value |-> <<>>, eng |-> e1]

EngineGet(e, k) ==
    LET e1 == [e EXCEPT !.total_operations = @ + 1] IN
    IF k \in DOMAIN e.data
    THEN [found |-> TRUE, value |-> e.data[k],
          eng |-> [e1 EXCEPT !.hit_count = @ + 1]]
    ELSE [found |-> FALSE, value |-> <<>>,
          eng |-> [e1 EXCEPT !.miss_count = @ + 1]]

\* A set that keeps the value of a key that is already stored.
EngineSetKeepOld(e, k, v) ==
    IF ~check_memory_limit(e, estimate_size(k, v)) THEN [ok |-> FALSE, eng |-> e]
    ELSE IF k \in DOMAIN e.data
    THEN [ok |-> TRUE, eng |-> [e EXCEPT !.total_operations = @ + 1]]
    ELSE LET size == estimate_size(k, v)
             e1 == update_memory([e EXCEPT !.data = MapPut(@, k, v)], size)
         IN [ok |-> TRUE,
             eng |-> [e1 EXCEPT !.shard_size[get_shard_index(k)] = @ + size,
                                !.total_operations = @ + 1]]

\* MemoryEngine::set: [ok, eng].
EngineSet(e, k, v) ==
    LET size == estimate_size(k, v) IN
    IF ~check_memory_limit(e, size) THEN [ok |-> FALSE, eng |-> e]
    ELSE
        LET old_size == IF k \in DOMAIN e.data
                        THEN estimate_size(k, e.data[k]) ELSE 0
            shard == get_shard_index(k)
            e1 == [e EXCEPT !.data = MapPut(@, k, v)]
            e2 == update_memory(e1, size - old_size)
            e3 == [e2 EXCEPT !.shard_size[shard] = @ + size]
            e4 == IF old_size > 0
                  THEN [e3 EXCEPT !.shard_size[shard] = @ - old_size]
                  ELSE e3
        IN [ok |-> TRUE, eng |-> [e4 EXCEPT !.total_operations = @ + 1]]

\* MemoryEngine::delete: [deleted, eng].
EngineDelete(e, k) ==
    IF k \in DOMAIN e.data THEN
        LET size == estimate_size(k, e.data[k])
            shard == get_shard_index(k)
            e1 == [e EXCEPT !.data = MapRemove(@, k)]
            e2 == update_memory(e1, 0 - size)
            e3 == [e2 EXCEPT !.shard_size[shard] = @ - size]
        IN [deleted |-> TRUE, eng |-> [e3 EXCEPT !.total_operations = @ + 1]]
    ELSE [deleted |-> FALSE, eng |-> e]

EngineExists(e, k) == k \in DOMAIN e.data

IsPrefix(p, k) == Len(p) <= Len(k) /\ SubSeq(k, 1, Len(p)) = p

\* MemoryEngine::scan; the result has no defined order, so it is a set.
\* A variant of scan that visits the first shard only.
EngineScanFirstShard(e, prefix) ==
    {k \in DOMAIN e.data : IsPrefix(prefix, k) /\ get_shard_index(k) = 0}

EngineScan(e, prefix) == {k \in DOMAIN e.data : IsPrefix(prefix, k)}

\* hit_rate of stats, in thousandths (the code divides as f64).
hit_rate(e) ==
    LET hits == e.hit_count
        total_gets == e.hit_count + e.miss_count
    IN  IF total_gets > 0 THEN (hits * 1000) \div total_gets ELSE 0

\* MemoryEngine::stats (hit_rate is left to its numerator and denominator).
EngineStats(e) ==
    [total_keys |-> Cardinality(DOMAIN e.data),
     memory_usage |-> e.total_memory,
     hits |-> e.hit_count,
     total_gets |-> e.hit_count + e.miss_count,
     total_operations |-> e.total_operations]

(***************************************************************************)
(* Commands and the dispatcher (commands/*.rs).                            *)
(***************************************************************************)
CmdGet(k) == [name |-> "GET", key |-> k, value |-> <<>>, has_ttl |-> FALSE]
CmdSet(k, v, t) == [name |-> "SET", key |-> k, value |-> v, has_ttl |-> t]
CmdDelete(k) == [name |-> "DELETE", key |-> k, value |-> <<>>, has_ttl |-> FALSE]
CmdScan(p) == [name |-> "SCAN", key |-> p, value |-> <<>>, has_ttl |-> FALSE]
CmdExist(k) == [name |-> "EXIST", key |-> k, value |-> <<>>, has_ttl |-> FALSE]
CmdStats == [name |-> "STATS", key |-> <<>>, value |-> <<>>, has_ttl |-> FALSE]
CmdPing == [name |-> "PING", key |-> <<>>, value |-> <<>>, has_ttl |-> FALSE]

IsMutating(cmd) == cmd.name \in {"SET", "DELETE"}

RespOk == [kind |-> "Ok"]
RespError(m) == [kind |-> "Error", msg |-> m]
RespValue(v) == [kind |-> "Value", value |-> v]
RespBool(b) == [kind |-> "Bool", flag |-> b]
RespNone == [kind |-> "None"]
RespKeys(ks) == [kind |-> "Keys", keys |-> ks]
RespStats(st) == [kind |-> "Stats", stats |-> st]
RespPong == [kind |-> "Pong"]

\* CommandHandler::validate: "ok" or the error message.
Validate(cmd) ==
    IF cmd.name = "SET" THEN
        IF Len(cmd.key) = 0 THEN "Key cannot be empty"
        ELSE IF Len(cmd.key) > MaxKeyLen THEN "Key too long"
        ELSE IF Len(cmd.value) > MaxValueLen THEN "Value too large"
        ELSE "ok"
    ELSE IF cmd.name = "GET" THEN
        IF Len(cmd.key) = 0 THEN "Key cannot be empty"
        ELSE IF Len(cmd.key) > MaxKeyLen THEN "Key too long"
        ELSE "ok"
    ELSE IF cmd.name = "SCAN" THEN
        IF Len(cmd.key) = 0 THEN "Key prefix cannot be empty"
        ELSE IF Len(cmd.key) > MaxKeyLen THEN "Key prefix too long"
        ELSE "ok"
    ELSE IF cmd.name \in {"STATS", "PING"} THEN "ok"
    ELSE
        IF Len(cmd.key) = 0 THEN "Key cannot be empty" ELSE "ok"

\* CommandHandler::execute of each command: [resp, eng].
HandlerExecute(cmd, e) ==
    IF cmd.name = "SET" THEN
        IF cmd.has_ttl
        THEN [resp |-> RespError("TTL not yet supported"), eng |-> e]
        ELSE LET r == EngineSet(e, cmd.key, cmd.value)
             IN  IF r.ok THEN [resp |-> RespOk, eng |-> r.eng]
                 ELSE [resp |-> RespError("Memory limit exceeded"), eng |-> r.eng]
    ELSE IF cmd.name = "DELETE" THEN
        LET r == EngineDelete(e, cmd.key)
        IN  [resp |-> RespBool(r.deleted), eng |-> r.eng]
    ELSE IF cmd.name = "SCAN" THEN
        [resp |-> RespKeys(EngineScan(e, cmd.key)), eng |-> e]
    ELSE IF cmd.name = "EXIST" THEN
        [resp |-> RespBool(EngineExists(e, cmd.key)), eng |-> e]
    ELSE IF cmd.name = "STATS" THEN
        [resp |-> RespStats(EngineStats(e)), eng |-> e]
    ELSE IF cmd.name = "PING" THEN
        [resp |-> RespPong, eng |-> e]
    ELSE
        LET r == EngineGet(e, cmd.key)
        IN  IF r.found THEN [resp |-> RespValue(r.value), eng |-> r.eng]
            ELSE [resp |-> RespError("Key not found"), eng |-> r.eng]

\* CommandDispatcher::execute; the server registers no middleware.
DispatcherExecute(cmd, e) ==
    IF Validate(cmd) # "ok"
    THEN [resp |-> RespError(Validate(cmd)), eng |-> e]
    ELSE HandlerExecute(cmd, e)

\* The Operation BlazeKVDB::execute logs for a mutating command.
OperationOf(cmd) ==
    IF cmd.name = "SET" THEN OpPut(cmd.key, cmd.value) ELSE OpDelete(cmd.key)

(***************************************************************************)
(* Inputs.                                                                 *)
(***************************************************************************)
ExecCommands ==
    {CmdSet(<<"a">>, <<118>>, FALSE), CmdSet(<<"b">>, <<>>, FALSE),
     CmdSet(<<>>, <<118>>, FALSE), CmdSet(<<"a">>, <<118>>, TRUE),
     CmdDelete(<<"a">>), CmdGet(<<"a">>)}

\* What ProtocolParser::parse_command can produce: non-empty keys, no TTL.
TcpCommands ==
    {CmdSet(<<"a">>, <<118>>, FALSE), CmdDelete(<<"a">>), CmdGet(<<"a">>)}

DurableExecCommands ==
    {CmdSet(<<"a">>, <<118>>, FALSE), CmdSet(<<"b">>, <<>>, FALSE),
     CmdDelete(<<"a">>)}

DurableTcpCommands == {CmdSet(<<"b">>, <<118>>, FALSE), CmdDelete(<<"a">>)}

(***************************************************************************)
(* State.                                                                  *)
(***************************************************************************)
VARIABLES
    engine,            \* the MemoryEngine of the running process
    config,            \* [max_memory, fsync_every]
    queue,             \* flume channel operation_tx -> operation_rx
    files,             \* inode number -> lines of the file (flushed and fsynced)
    live,              \* inode at config.aof_path
    tmp,               \* inode at the ".aof.tmp" sibling path, 0 if none
    bg_writer,         \* inode of the handle owned by the background writer
    aof_writer,        \* AppendOnlyFile.writer: 0 = None, else inode of the handle
    wbuf,              \* BufWriter buffer of the background writer
    operation_logged,  \* AppendOnlyFile.operation_logged
    aof_locked,        \* the AOL RwLock is write-held (compaction)
    disk_ok,           \* FALSE once the disk refuses writes
    snap_files,        \* timestamp -> Snapshot, the snapshot-<ts>.rdb files
    snap_latest,       \* snapshot-latest.rdb: <<>> or <<Snapshot>>
    clock,             \* wall clock, seconds
    snap_pc,           \* position of the create_snapshot task
    snap_data,         \* data collected by create_snapshot
    compact_state,     \* current_state collected by compact_aof
    phase,             \* "running", "down", "recover_snapshot", "recover_aof", "failed"
    rstats,            \* RecoveryStats of the last recovery
    pc,                \* caller -> "idle" | "logged"
    cmd,               \* caller -> command being (or last) handled
    resp,              \* caller -> response to cmd, RespNone while pending
    logged_op,         \* caller -> operations this call submitted to the AOL
    done,              \* caller -> number of responses delivered
    budget,            \* commands that may still be issued
    nsnap,             \* create_snapshot calls so far
    ncrash,            \* crashes so far
    acked,             \* key -> value acknowledged through BlazeKVDB::execute
    snap_ref,          \* [state, valid]: the engine data when the last create_snapshot
                       \* began; valid once it returned Ok with no caller active
                       \* and nothing submitted to the AOL since
    snap_quiet,        \* no caller acted since the running create_snapshot began
    snap_overlap,      \* some create_snapshot ran while a caller was active
    crash_drained,     \* queue and buffer were empty at the last crash
    pre_rename,        \* queue entries submitted before the last compaction rename
    snap_win,          \* what execute did while the last create_snapshot ran
    snap_tmp,          \* file name -> [snapshot, complete], the snapshot-<name>.tmp files
    latest_torn,       \* snapshot-latest.rdb holds only a prefix of its bytes
    snap_cur,          \* <<Snapshot>> being written by Snapshotter::create_snapshot
    nsnap_ok,          \* Snapshotter::create_snapshot calls that returned Ok
    eres,              \* the last direct MemoryEngine call and what it returned
    elast,             \* key -> the last accepted set or delete on it
    neng,              \* direct MemoryEngine calls so far
    gets,              \* [found, absent]: direct get calls by what they returned
    wres,              \* [line, resp]: the last line process_command handled
    tpc,               \* thread -> position inside MemoryEngine::set / delete
    tloc,              \* thread -> [key, value, size, old_size] of its call
    elock,             \* shard -> thread holding shard.data.write(), or "free"
    rlock,             \* shard -> threads holding shard.data.read()
    nconc,             \* concurrent engine calls started so far
    submitted,         \* operations one task passed to log_operation, in order
    listener,          \* the TcpListener of TcpServer::start: "none", "bound", "closed"
    conn,              \* a client connection and its handle_connection task
    disp,              \* a CommandDispatcher with middleware and its caller
    chan               \* the AOL channel's producers and the writer task

vars == << engine, config, queue, files, live, tmp, bg_writer, aof_writer, wbuf,
           operation_logged, aof_locked, disk_ok, snap_files, snap_latest,
           clock, snap_pc, snap_data, compact_state, phase, rstats, pc, cmd,
           resp, logged_op, done, budget, nsnap, ncrash, acked, snap_ref, snap_quiet,
           snap_overlap, crash_drained, pre_rename, snap_win, snap_tmp,
           latest_torn,
           snap_cur,
           nsnap_ok, eres, elast, neng, gets, wres, tpc, tloc, elock, rlock, nconc,
           submitted, listener, conn, disp, chan >>

aofVars == << queue, files, live, tmp, bg_writer, aof_writer, wbuf,
              operation_logged, aof_locked >>
snapFileVars == << snap_files, snap_latest, clock >>
snapTaskVars == << snap_pc, snap_data, compact_state, nsnap >>
callerVars == << pc, cmd, resp, logged_op, done, budget >>
ghostVars == << acked, snap_ref, snap_quiet, snap_overlap, crash_drained,
               pre_rename, snap_win >>
snapDirVars == << snap_tmp, latest_torn, snap_cur >>
engCallVars == << eres, elast, neng, gets >>
\* The persistence layer, the callers of BlazeKVDB::execute and the ghosts.
persistVars == << config, aofVars, disk_ok, snapFileVars, snapTaskVars, phase,
                  rstats, callerVars, ncrash, ghostVars, snapDirVars, nsnap_ok >>
concVars == << tpc, tloc, elock, rlock, nconc >>
\* The direct engine callers and the wire, which the persistence layer never touches.
serverVars == << listener, conn, disp, chan >>
extRest == << engCallVars, wres, concVars, submitted, serverVars >>
extVars == << snapDirVars, nsnap_ok, extRest >>

\* Keys and prefixes of the direct engine calls.
EngineKeys == {<<>>, <<"a">>, <<"a", "b">>, <<"b">>}
EnginePrefixes == EngineKeys \cup {<<"b", "a">>}

\* Tasks calling the engine concurrently.
Threads == {"t1", "t2"}
NoCall == [key |-> <<>>, value |-> <<>>, size |-> 0, old_size |-> 0]

\* No client has connected: [st, pc, inbox, cur, resp, outbox, sent, handled].
\* CommandDispatcher::new: no middleware, no call in progress.
NoDispatch ==
    [mw |-> <<>>, pc |-> "idle", batch |-> <<>>, i |-> 0, j |-> 0,
     resp |-> [kind |-> "None"], responses |-> <<>>, trace |-> <<>>,
     eng0 |-> <<>>, beng |-> <<>>, err |-> 0, ncalls |-> 0]

\* No create_snapshot has run: deleted are the captured keys whose delete
\* was acknowledged while it ran, ops the operations log_operation took
\* between the compaction scan and the rename, renamed whether compact
\* has renamed the rewritten file over the live log.
NoWindow == [deleted |-> {}, ops |-> <<>>, renamed |-> FALSE]

\* AppendOnlyFile::new and start_background_writer: the AppendOnlyFile
\* holds the Sender, the writer task is running.
OpenChannel == [closed |-> FALSE, writer |-> "running"]

NoConnection ==
    [st |-> "none", pc |-> "read", inbox |-> <<>>, cur |-> <<>>,
     resp |-> RespNone, outbox |-> <<>>, sent |-> <<>>, handled |-> <<>>]

EngineNoCall ==
    [op |-> "none", key |-> <<>>, value |-> <<>>, ok |-> FALSE,
     keys |-> <<>>, usage |-> 0]

RecoveryStatsDefault ==
    [snapshot_loaded |-> FALSE, keys_from_snapshot |-> 0,
     aof_operations_total |-> 0, aof_operations_replayed |-> 0,
     final_key_count |-> 0, ok |-> TRUE]

\* State of a process in phase ph over a data directory holding the log
\* lines log and the latest snapshot snap, torn or whole.
InitDir(c, b, ph, log, snap, torn) ==
    /\ config = c
    /\ budget = b
    /\ engine = MemoryEngineNew(c.max_memory)
    /\ queue = <<>>
    /\ files = << log >>
    /\ live = 1
    /\ tmp = 0
    /\ bg_writer = 1
    /\ aof_writer = 0
    /\ wbuf = <<>>
    /\ operation_logged = 0
    /\ aof_locked = FALSE
    /\ disk_ok = TRUE
    /\ snap_files = EmptyMap
    /\ snap_latest = snap
    /\ clock = 0
    /\ snap_pc = "idle"
    /\ snap_data = EmptyMap
    /\ compact_state = EmptyMap
    /\ phase = ph
    /\ rstats = RecoveryStatsDefault
    /\ pc = [c2 \in Callers |-> "idle"]
    /\ cmd = [c2 \in Callers |-> CmdGet(<<>>)]
    /\ resp = [c2 \in Callers |-> RespNone]
    /\ logged_op = [c2 \in Callers |-> <<>>]
    /\ done = [c2 \in Callers |-> 0]
    /\ nsnap = 0
    /\ ncrash = 0
    /\ acked = EmptyMap
    /\ snap_ref = [state |-> EmptyMap, valid |-> FALSE]
    /\ snap_quiet = FALSE
    /\ snap_overlap = FALSE
    /\ crash_drained = FALSE
    /\ pre_rename = 0
    /\ snap_win = NoWindow
    /\ snap_tmp = EmptyMap
    /\ latest_torn = torn
    /\ snap_cur = <<>>
    /\ nsnap_ok = 0
    /\ eres = EngineNoCall
    /\ elast = [k \in EngineKeys |-> [kind |-> "none", value |-> <<>>]]
    /\ neng = 0
    /\ gets = [found |-> 0, absent |-> 0]
    /\ wres = [line |-> <<>>, resp |-> RespNone]
    /\ tpc = [t \in Threads |-> "idle"]
    /\ tloc = [t \in Threads |-> NoCall]
    /\ elock = [s \in Shards |-> "free"]
    /\ rlock = [s \in Shards |-> {}]
    /\ nconc = 0
    /\ submitted = <<>>
    /\ listener = "none"
    /\ conn = NoConnection
    /\ disp = NoDispatch
    /\ chan = OpenChannel

\* The same over a data directory whose latest snapshot, if any, is whole.
InitState(c, b, ph, log, snap) == InitDir(c, b, ph, log, snap, FALSE)

\* State after BlazeKVDB::new on an empty data directory.
InitWith(c, b) == InitState(c, b, "running", <<>>, <<>>)

Init ==
    \E m \in MaxMemoryChoices, f \in FsyncEveryChoices :
        InitWith([max_memory |-> m, fsync_every |-> f], MaxCmds)

(***************************************************************************)
(* BlazeKVDB::execute (bootstrap.rs) and the TCP path (connection.rs).     *)
(***************************************************************************)
\* AppendOnlyFile::log_operation: send on the unbounded channel.  The
\* AppendOnlyFile itself keeps a Receiver, so the channel is never
\* disconnected while the manager lives and the send succeeds.
AofLogOperation(q, op) == [ok |-> TRUE, queue |-> Append(q, op)]

\* PersistenceManager::log_operation: takes the AOL read lock, then sends.
ManagerLogOperation(q, op) == AofLogOperation(q, op)

Acknowledge(a, command, response) ==
    IF command.name = "SET" /\ response.kind = "Ok"
        THEN MapPut(a, command.key, command.value)
    ELSE IF command.name = "DELETE" /\ response.kind = "Bool"
        THEN MapRemove(a, command.key)
    ELSE a

\* A variant of execute that hands the command to the dispatcher while the
\* log submission is still pending.
ExecLogApplyFirst(c, command) ==
    /\ phase = "running"
    /\ pc[c] = "idle"
    /\ IsMutating(command)
    /\ budget > 0
    /\ budget' = budget - 1
    /\ ~aof_locked
    /\ engine' = DispatcherExecute(command, engine).eng
    /\ cmd' = [cmd EXCEPT ![c] = command]
    /\ queue' = Append(queue, OperationOf(command))
    /\ pc' = [pc EXCEPT ![c] = "logged"]
    /\ resp' = [resp EXCEPT ![c] = RespNone]
    /\ logged_op' = [logged_op EXCEPT ![c] = << OperationOf(command) >>]
    /\ snap_quiet' = FALSE
    /\ snap_overlap' = (snap_overlap \/ snap_pc # "idle")
    /\ snap_ref' = [snap_ref EXCEPT !.valid = FALSE]
    /\ snap_win' = IF snap_pc = "scanned"
                   THEN [snap_win EXCEPT !.ops = Append(@, OperationOf(command))]
                   ELSE snap_win
    /\ UNCHANGED << done, config, extVars, files, live, tmp, bg_writer, aof_writer,
                    wbuf, operation_logged, aof_locked, disk_ok, snapFileVars,
                    snapTaskVars, phase, rstats, ncrash, acked, crash_drained, pre_rename >>

\* execute, first half: a Set or Delete is logged before anything else.
ExecLog(c, command) ==
    /\ phase = "running"
    /\ pc[c] = "idle"
    /\ IsMutating(command)
    /\ budget > 0
    /\ budget' = budget - 1
    /\ ~aof_locked
    /\ LET r == ManagerLogOperation(queue, OperationOf(command)) IN
        /\ cmd' = [cmd EXCEPT ![c] = command]
        /\ IF r.ok
           THEN /\ queue' = r.queue
                /\ pc' = [pc EXCEPT ![c] = "logged"]
                /\ resp' = [resp EXCEPT ![c] = RespNone]
                /\ logged_op' = [logged_op EXCEPT ![c] = << OperationOf(command) >>]
                /\ done' = done
           ELSE /\ queue' = queue
                /\ pc' = pc
                /\ resp' = [resp EXCEPT ![c] = RespError("Persistence error")]
                /\ logged_op' = [logged_op EXCEPT ![c] = <<>>]
                /\ done' = [done EXCEPT ![c] = @ + 1]
    /\ snap_quiet' = FALSE
    /\ snap_overlap' = (snap_overlap \/ snap_pc # "idle")
    /\ snap_ref' = [snap_ref EXCEPT !.valid = FALSE]
    /\ snap_win' = IF snap_pc = "scanned"
                   THEN [snap_win EXCEPT !.ops = Append(@, OperationOf(command))]
                   ELSE snap_win
    /\ UNCHANGED << engine, config, extVars, files, live, tmp, bg_writer, aof_writer,
                    wbuf, operation_logged, aof_locked, disk_ok, snapFileVars,
                    snapTaskVars, phase, rstats, ncrash, acked, crash_drained, pre_rename >>

\* execute, second half: self.dispatcher.execute(command).
ExecDispatch(c) ==
    /\ phase = "running"
    /\ pc[c] = "logged"
    /\ LET r == DispatcherExecute(cmd[c], engine) IN
        /\ engine' = r.eng
        /\ resp' = [resp EXCEPT ![c] = r.resp]
        /\ acked' = Acknowledge(acked, cmd[c], r.resp)
        /\ snap_win' = IF /\ cmd[c].name = "DELETE" /\ r.resp.kind = "Bool"
                          /\ snap_pc # "idle" /\ cmd[c].key \in DOMAIN snap_data
                       THEN [snap_win EXCEPT !.deleted = @ \cup {cmd[c].key}]
                       ELSE snap_win
    /\ pc' = [pc EXCEPT ![c] = "idle"]
    /\ done' = [done EXCEPT ![c] = @ + 1]
    /\ snap_quiet' = FALSE
    /\ snap_overlap' = (snap_overlap \/ snap_pc # "idle")
    /\ UNCHANGED << config, extVars, aofVars, disk_ok, snapFileVars, snapTaskVars, phase,
                    rstats, cmd, logged_op, budget, ncrash, snap_ref,
                    crash_drained, pre_rename >>

\* execute of a read-only command: nothing is logged.
ExecRead(c, command) ==
    /\ phase = "running"
    /\ pc[c] = "idle"
    /\ ~IsMutating(command)
    /\ budget > 0
    /\ budget' = budget - 1
    /\ LET r == DispatcherExecute(command, engine) IN
        /\ engine' = r.eng
        /\ resp' = [resp EXCEPT ![c] = r.resp]
    /\ cmd' = [cmd EXCEPT ![c] = command]
    /\ logged_op' = [logged_op EXCEPT ![c] = <<>>]
    /\ done' = [done EXCEPT ![c] = @ + 1]
    /\ snap_quiet' = FALSE
    /\ snap_overlap' = (snap_overlap \/ snap_pc # "idle")
    /\ UNCHANGED << config, extVars, aofVars, disk_ok, snapFileVars, snapTaskVars, phase,
                    rstats, pc, ncrash, acked, snap_ref, crash_drained, pre_rename,
                    snap_win >>

\* ConnectionHandler::process_command: the server hands the connection the
\* CommandDispatcher (main.rs: kvdb.dispatcher()), not BlazeKVDB::execute.
TcpCommand(command) ==
    /\ phase = "running"
    /\ pc[TcpConn] = "idle"
    /\ budget > 0
    /\ budget' = budget - 1
    /\ LET r == DispatcherExecute(command, engine) IN
        /\ engine' = r.eng
        /\ resp' = [resp EXCEPT ![TcpConn] = r.resp]
    /\ cmd' = [cmd EXCEPT ![TcpConn] = command]
    /\ logged_op' = [logged_op EXCEPT ![TcpConn] = <<>>]
    /\ done' = [done EXCEPT ![TcpConn] = @ + 1]
    /\ snap_quiet' = FALSE
    /\ snap_overlap' = (snap_overlap \/ snap_pc # "idle")
    /\ UNCHANGED << config, extVars, aofVars, disk_ok, snapFileVars, snapTaskVars, phase,
                    rstats, pc, ncrash, acked, snap_ref, crash_drained, pre_rename,
                    snap_win >>

(***************************************************************************)
(* Background writer (AppendOnlyFile::start_background_writer).            *)
(***************************************************************************)
\* A policy test that is due one record late.
FsyncDueLate(fsync_every, ops_count) ==
    fsync_every = 0 \/ ops_count % (fsync_every + 1) = 0

FsyncDue(fsync_every, ops_count) ==
    fsync_every = 0 \/ ops_count % fsync_every = 0

\* One iteration of the writer loop.  A record reaches the file only when
\* the BufWriter is flushed; records are far smaller than its capacity, so
\* it never flushes on its own.
WriterStep ==
    /\ phase \in {"running", "recover_snapshot", "recover_aof"}
    /\ queue # <<>>
    /\ queue' = Tail(queue)
    /\ \E outcome \in (IF disk_ok THEN {"ok"} ELSE {"write_err", "flush_err"}) :
        IF outcome = "write_err"
        THEN UNCHANGED << files, wbuf, operation_logged >>
        ELSE LET entry == to_aof_entry(Head(queue))
                 ops_count == operation_logged + 1
                 buf == Append(wbuf, entry)
             IN  /\ operation_logged' = ops_count
                 /\ IF FsyncDue(config.fsync_every, ops_count) /\ outcome = "ok"
                    THEN /\ files' = [files EXCEPT ![bg_writer] = @ \o buf]
                         /\ wbuf' = <<>>
                    ELSE /\ files' = files
                         /\ wbuf' = buf
    /\ pre_rename' = IF pre_rename > 0 THEN pre_rename - 1 ELSE 0
    /\ UNCHANGED << engine, config, extVars, live, tmp, bg_writer, aof_writer, aof_locked,
                    disk_ok, snapFileVars, snapTaskVars, phase, rstats,
                    callerVars, ncrash, acked, snap_ref, snap_quiet, snap_overlap,
                    crash_drained, snap_win >>

DiskFull ==
    /\ phase = "running"
    /\ disk_ok
    /\ disk_ok' = FALSE
    /\ UNCHANGED << engine, config, extVars, aofVars, snapFileVars, snapTaskVars, phase,
                    rstats, callerVars, ncrash, ghostVars >>

(***************************************************************************)
(* Snapshotter (storage/persistence/snapshot.rs).                          *)
(***************************************************************************)
PkgVersion == "CARGO_PKG_VERSION"

MapSize(m) == SumOver(DOMAIN m, [k \in DOMAIN m |-> Len(k) + Len(m[k])])

\* Snapshot::new at wall-clock time ts.
SnapshotNew(data, ts) ==
    [version |-> PkgVersion, timestamp |-> ts,
     total_keys |-> Cardinality(DOMAIN data), total_size |-> MapSize(data),
     data |-> data]

\* The file name of a snapshot: its timestamp formatted "%Y%m%d-%H%M%S",
\* i.e. cut to the second.
SnapFileName(ts) == ts \div TicksPerSecond

\* Snapshotter::cleanup_old_snapshots over the timestamped files sf (file
\* name -> Snapshot): the metadata of every file, sorted by timestamp; the
\* files named after the oldest ones are removed.
cleanup_old_snapshots(sf) ==
    IF Cardinality(DOMAIN sf) <= KEEP_SNAPSHOTS THEN sf
    ELSE LET to_remove == Cardinality(DOMAIN sf) - KEEP_SNAPSHOTS
             oldest == {n \in DOMAIN sf :
                          Cardinality({u \in DOMAIN sf :
                              sf[u].timestamp < sf[n].timestamp}) < to_remove}
             removed == {SnapFileName(sf[n].timestamp) : n \in oldest}
         IN  [n \in (DOMAIN sf) \ removed |-> sf[n]]

(***************************************************************************)
(* PersistenceManager::create_snapshot and compact_aof (manager.rs),       *)
(* AppendOnlyFile::compact (aof.rs).                                       *)
(***************************************************************************)
\* storage.scan("") followed by storage.get of every key: the collected
\* map and the engine with its get counters advanced.
RECURSIVE GetEach(_, _, _)
GetEach(e, keys, acc) ==
    IF keys = {} THEN [data |-> acc, eng |-> e]
    ELSE LET k == CHOOSE x \in keys : TRUE
             r == EngineGet(e, k)
         IN  GetEach(r.eng, keys \ {k},
                     IF r.found THEN MapPut(acc, k, r.value) ELSE acc)

CollectState(e) == GetEach(e, EngineScan(e, <<>>), EmptyMap)

\* The keys of a map in shard order, as MemoryEngine::scan visits them.
RECURSIVE SetToSeq(_)
SetToSeq(S) ==
    IF S = {} THEN <<>>
    ELSE LET x == CHOOSE y \in S : \A z \in S : get_shard_index(y) <= get_shard_index(z)
         IN  << x >> \o SetToSeq(S \ {x})

\* The lines AppendOnlyFile::compact writes for current_keys.
CompactLines(m) ==
    LET ks == SetToSeq(DOMAIN m)
    IN  [i \in 1..Len(ks) |-> to_aof_entry(OpPut(ks[i], m[ks[i]]))]

AllIdle == \A c \in Callers : pc[c] = "idle"

\* create_snapshot, lines 130-137: enumerate the live state.
SnapCapture ==
    /\ phase = "running"
    /\ snap_pc = "idle"
    /\ nsnap < MaxSnapshots
    /\ LET r == CollectState(engine) IN
        /\ snap_data' = r.data
        /\ engine' = r.eng
    /\ snap_pc' = "captured"
    /\ nsnap' = nsnap + 1
    /\ snap_quiet' = AllIdle
    /\ snap_overlap' = (snap_overlap \/ ~AllIdle)
    /\ snap_ref' = [state |-> engine.data, valid |-> FALSE]
    /\ snap_win' = NoWindow
    /\ UNCHANGED << config, extVars, aofVars, disk_ok, snapFileVars, compact_state, phase,
                    rstats, callerVars, ncrash, acked, crash_drained, pre_rename >>

\* create_snapshot, line 139: Snapshotter::create_snapshot (write the
\* timestamped file, copy it to snapshot-latest.rdb, clean up).
SnapPublish(ts) ==
    /\ phase = "running"
    /\ snap_pc = "captured"
    /\ IF ~disk_ok
       THEN /\ snap_pc' = "idle"
            /\ UNCHANGED snapFileVars
       ELSE LET snapshot == SnapshotNew(snap_data, ts) IN
            /\ snap_files' = cleanup_old_snapshots(
                                MapPut(snap_files, SnapFileName(ts), snapshot))
            /\ snap_latest' = << snapshot >>
            /\ clock' = ts
            /\ snap_pc' = "published"
    /\ nsnap_ok' = IF disk_ok THEN nsnap_ok + 1 ELSE nsnap_ok
    /\ UNCHANGED << engine, config, extRest, snapDirVars, aofVars, disk_ok,
                    snap_data, compact_state,
                    nsnap, phase, rstats, callerVars, ncrash, ghostVars >>

\* compact_aof, lines 160-167: enumerate the live state again.
CompactScan ==
    /\ phase = "running"
    /\ snap_pc = "published"
    /\ LET r == CollectState(engine) IN
        /\ compact_state' = r.data
        /\ engine' = r.eng
    /\ snap_pc' = "scanned"
    /\ UNCHANGED << config, extVars, aofVars, disk_ok, snapFileVars, snap_data, nsnap,
                    phase, rstats, callerVars, ncrash, ghostVars >>

\* A compaction that writes the engine's state at the time it holds the
\* lock instead of the state scanned before.
CompactTempLive ==
    /\ phase = "running"
    /\ snap_pc = "scanned"
    /\ files' = Append(files, CompactLines(engine.data))
    /\ tmp' = Len(files) + 1
    /\ aof_locked' = TRUE
    /\ snap_pc' = "tmp_written"
    /\ UNCHANGED << engine, config, extVars, queue, live, bg_writer, aof_writer, wbuf,
                    operation_logged, disk_ok, snapFileVars, snap_data,
                    compact_state, nsnap, phase, rstats, callerVars, ncrash,
                    ghostVars >>

\* compact_aof takes the AOL write lock; compact writes and fsyncs the
\* temporary file.
CompactTemp ==
    /\ phase = "running"
    /\ snap_pc = "scanned"
    /\ IF ~disk_ok
       THEN /\ snap_pc' = "idle"
            /\ UNCHANGED << files, tmp, aof_locked >>
       ELSE /\ files' = Append(files, CompactLines(compact_state))
            /\ tmp' = Len(files) + 1
            /\ aof_locked' = TRUE
            /\ snap_pc' = "tmp_written"
    /\ UNCHANGED << engine, config, extVars, queue, live, bg_writer, aof_writer, wbuf,
                    operation_logged, disk_ok, snapFileVars, snap_data,
                    compact_state, nsnap, phase, rstats, callerVars, ncrash,
                    ghostVars >>

\* compact: rename the temporary file over the live path, then
\* self.open_writer(), which stores the new handle in AppendOnlyFile.writer;
\* the background writer keeps the handle it took when it was started.
CompactRename ==
    /\ phase = "running"
    /\ snap_pc = "tmp_written"
    /\ live' = tmp
    /\ tmp' = 0
    /\ aof_writer' = tmp
    /\ aof_locked' = FALSE
    /\ snap_pc' = "idle"
    /\ snap_ref' = [snap_ref EXCEPT !.valid = snap_quiet]
    /\ pre_rename' = Len(queue)
    /\ snap_win' = [snap_win EXCEPT !.renamed = TRUE]
    /\ UNCHANGED << engine, config, extVars, queue, files, bg_writer, wbuf,
                    operation_logged, disk_ok, snapFileVars, snap_data,
                    compact_state, nsnap, phase, rstats, callerVars, ncrash,
                    acked, snap_quiet, snap_overlap, crash_drained >>

(***************************************************************************)
(* Crash, restart (BlazeKVDB::new) and recovery (recovery.rs).             *)
(***************************************************************************)
\* The process dies: memory, queue and BufWriter contents are lost, files
\* that no path names any more disappear.
Crash ==
    /\ phase = "running"
    /\ ncrash < MaxCrashes
    /\ ncrash' = ncrash + 1
    /\ phase' = "down"
    /\ crash_drained' = (queue = <<>> /\ wbuf = <<>> /\ AllIdle)
    /\ pre_rename' = 0
    /\ engine' = MemoryEngineNew(config.max_memory)
    /\ queue' = <<>>
    /\ wbuf' = <<>>
    /\ files' = << files[live] >>
    /\ live' = 1
    /\ tmp' = 0
    /\ bg_writer' = 0
    /\ aof_writer' = 0
    /\ operation_logged' = 0
    /\ aof_locked' = FALSE
    /\ snap_pc' = "idle"
    /\ snap_data' = EmptyMap
    /\ compact_state' = EmptyMap
    /\ pc' = [c \in Callers |-> "idle"]
    /\ UNCHANGED << config, extVars, disk_ok, snapFileVars, nsnap, rstats, cmd, resp,
                    logged_op, done, budget, acked, snap_ref, snap_quiet,
                    snap_overlap, snap_win >>

\* BlazeKVDB::new up to the call of recover: a fresh engine, a fresh
\* AppendOnlyFile on the live path whose writer handle goes to the
\* background writer.
Restart ==
    /\ phase = "down"
    /\ phase' = "recover_snapshot"
    /\ engine' = MemoryEngineNew(config.max_memory)
    /\ bg_writer' = live
    /\ aof_writer' = 0
    /\ rstats' = RecoveryStatsDefault
    /\ UNCHANGED << config, extVars, queue, files, live, tmp, wbuf, operation_logged,
                    aof_locked, disk_ok, snapFileVars, snapTaskVars,
                    callerVars, ncrash, ghostVars >>

\* All orders in which a HashMap with these keys can be iterated.
RECURSIVE Orders(_)
Orders(S) ==
    IF S = {} THEN { <<>> }
    ELSE UNION { { << x >> \o t : t \in Orders(S \ {x}) } : x \in S }

\* recover, step 1: storage.set of every snapshot entry, stopping at
\* the first error.
RECURSIVE RestoreEntries(_, _, _)
RestoreEntries(e, data, order) ==
    IF Len(order) = 0 THEN [ok |-> TRUE, eng |-> e]
    ELSE LET r == EngineSet(e, order[1], data[order[1]])
         IN  IF r.ok THEN RestoreEntries(r.eng, data, Tail(order))
             ELSE [ok |-> FALSE, eng |-> r.eng]

\* A variant of the replay loop that skips Delete operations.
RECURSIVE ReplayOperationsSkipDelete(_, _, _)
ReplayOperationsSkipDelete(e, ops, n) ==
    IF Len(ops) = 0 THEN [ok |-> TRUE, eng |-> e, replayed |-> n]
    ELSE IF ops[1].type = "Put" THEN
        LET r == EngineSet(e, ops[1].key, ops[1].value)
        IN  IF r.ok THEN ReplayOperationsSkipDelete(r.eng, Tail(ops), n + 1)
            ELSE [ok |-> FALSE, eng |-> r.eng, replayed |-> n]
    ELSE ReplayOperationsSkipDelete(e, Tail(ops), n)

\* recover, step 2: apply the operations in order, stopping at the
\* first error: [ok, eng, replayed].
RECURSIVE ReplayOperations(_, _, _)
ReplayOperations(e, ops, n) ==
    IF Len(ops) = 0 THEN [ok |-> TRUE, eng |-> e, replayed |-> n]
    ELSE IF ops[1].type = "Put" THEN
        LET r == EngineSet(e, ops[1].key, ops[1].value)
        IN  IF r.ok THEN ReplayOperations(r.eng, Tail(ops), n + 1)
            ELSE [ok |-> FALSE, eng |-> r.eng, replayed |-> n]
    ELSE
        LET r == EngineDelete(e, ops[1].key)
        IN  ReplayOperations(r.eng, Tail(ops), n + 1)

\* RecoveryManager::recover, step 1.
RecoverSnapshot ==
    /\ phase = "recover_snapshot"
    /\ IF snap_latest = <<>>
       THEN /\ phase' = "recover_aof"
            /\ UNCHANGED << engine, rstats >>
       ELSE IF latest_torn
       THEN /\ phase' = "failed"
            /\ rstats' = [rstats EXCEPT !.ok = FALSE]
            /\ UNCHANGED engine
       ELSE LET snapshot == snap_latest[1] IN
            \E order \in Orders(DOMAIN snapshot.data) :
            LET r == RestoreEntries(engine, snapshot.data, order) IN
            /\ engine' = r.eng
            /\ rstats' = [rstats EXCEPT
                            !.snapshot_loaded = TRUE,
                            !.keys_from_snapshot = Cardinality(DOMAIN snapshot.data),
                            !.ok = r.ok]
            /\ phase' = IF r.ok THEN "recover_aof" ELSE "failed"
    /\ UNCHANGED << config, extVars, aofVars, disk_ok, snapFileVars, snapTaskVars,
                    callerVars, ncrash, ghostVars >>

\* A replay that goes through the logging path of BlazeKVDB::execute.
RecoverAofLogging ==
    /\ phase = "recover_aof"
    /\ LET operations == read_operations(files[live])
           r == ReplayOperations(engine, operations, 0)
       IN  /\ engine' = r.eng
           /\ queue' = queue \o SubSeq(operations, 1, r.replayed)
           /\ rstats' = [rstats EXCEPT
                           !.aof_operations_total = Len(operations),
                           !.aof_operations_replayed = r.replayed,
                           !.final_key_count =
                               IF r.ok THEN EngineStats(r.eng).total_keys ELSE @,
                           !.ok = r.ok]
           /\ phase' = IF r.ok THEN "running" ELSE "failed"
    /\ UNCHANGED << config, extVars, files, live, tmp, bg_writer, aof_writer, wbuf,
                    operation_logged, aof_locked, disk_ok, snapFileVars,
                    snapTaskVars, callerVars, ncrash, ghostVars >>

\* RecoveryManager::recover, steps 2 and 3.
RecoverAof ==
    /\ phase = "recover_aof"
    /\ LET operations == read_operations(files[live])
           r == ReplayOperations(engine, operations, 0)
       IN  /\ engine' = r.eng
           /\ rstats' = [rstats EXCEPT
                           !.aof_operations_total = Len(operations),
                           !.aof_operations_replayed = r.replayed,
                           !.final_key_count =
                               IF r.ok THEN EngineStats(r.eng).total_keys ELSE @,
                           !.ok = r.ok]
           /\ phase' = IF r.ok THEN "running" ELSE "failed"
    /\ UNCHANGED << config, extVars, aofVars, disk_ok, snapFileVars, snapTaskVars,
                    callerVars, ncrash, ghostVars >>

(***************************************************************************)
(* Spec: the server in normal operation -- callers of BlazeKVDB::execute,  *)
(* a TCP connection, the background writer and a disk that may fill up.    *)
(***************************************************************************)
Next ==
    \/ \E c \in ExecClients, command \in ExecCommands : ExecLog(c, command)
    \/ \E c \in ExecClients : ExecDispatch(c)
    \/ \E c \in ExecClients, command \in ExecCommands : ExecRead(c, command)
    \/ \E command \in TcpCommands : TcpCommand(command)
    \/ WriterStep
    \/ DiskFull

Spec == Init /\ [][Next]_vars

(***************************************************************************)
(* Properties checked under Spec.                                          *)
(***************************************************************************)
Succeeded(r) == r.kind \in {"Ok", "Bool"}

\* The call of caller c returns in this step.
Returns(c) == done'[c] = done[c] + 1

\* The record of an operation has been flushed and fsynced to the log.
InLog(op) == to_aof_entry(op) \in Range(files[live])

\* The record of an operation is somewhere on its way to the log.
InAol(op) ==
    \/ op \in Range(queue)
    \/ to_aof_entry(op) \in Range(wbuf)
    \/ InLog(op)

\* C1: under the Always policy, at the moment execute returns success for
\* a Set or Delete, its record has been written and fsynced to the log.
C1_AckImpliesDurable ==
    [][\A c \in ExecClients :
        (config.fsync_every = 0 /\ Returns(c) /\ IsMutating(cmd'[c])
            /\ Succeeded(resp'[c]))
        => to_aof_entry(OperationOf(cmd'[c])) \in Range(files'[live'])]_vars

\* C2: a Set or Delete handled by execute is submitted to the AOL, and the
\* submission acknowledged, in a step that leaves the engine alone; the
\* engine changes on behalf of such a call only after that step; a call
\* whose submission failed returns an Error and leaves the engine unchanged.
C2_LogBeforeEngine ==
    [][\A c \in ExecClients :
        /\ (pc[c] = "idle" /\ pc'[c] = "logged")
            => /\ queue' = Append(queue, OperationOf(cmd'[c]))
               /\ logged_op'[c] = << OperationOf(cmd'[c]) >>
               /\ engine' = engine
        /\ (Returns(c) /\ IsMutating(cmd'[c]))
            => \/ /\ pc[c] = "logged"
                  /\ logged_op[c] = << OperationOf(cmd[c]) >>
               \/ /\ resp'[c].kind = "Error"
                  /\ engine' = engine
        /\ (engine' # engine /\ done'[TcpConn] = done[TcpConn]) => Returns(c)
      ]_vars

C2_Witness ==
    \E c \in ExecClients :
        /\ pc[c] = "idle"
        /\ cmd[c].name = "SET"
        /\ resp[c].kind = "Ok"
        /\ logged_op[c] = << OperationOf(cmd[c]) >>
        /\ cmd[c].key \in DOMAIN engine.data

\* C3: every Set or Delete received over a TCP connection has its
\* Operation enqueued to the AOL by the time its response is sent.
C3_TcpCommandLogged ==
    (done[TcpConn] > 0 /\ IsMutating(cmd[TcpConn]) /\ disk_ok)
        => InAol(OperationOf(cmd[TcpConn]))

\* Applying operations in order to a key-value map.
RECURSIVE ApplyOps(_, _)
ApplyOps(m, ops) ==
    IF Len(ops) = 0 THEN m
    ELSE ApplyOps(IF ops[1].type = "Put"
                  THEN MapPut(m, ops[1].key, ops[1].value)
                  ELSE MapRemove(m, ops[1].key),
                  Tail(ops))

\* C4: after commands executed one at a time through execute, once the
\* writer has drained its queue, the log read from offset 0 and applied to
\* an empty store yields the live engine state.
C4_ReplayEqualsLive ==
    (AllIdle /\ done[TcpConn] = 0 /\ queue = <<>> /\ wbuf = <<>> /\ disk_ok)
        => ApplyOps(EmptyMap, read_operations(files[live])) = engine.data

\* C5: a Set that execute answers with an Error (validation, TTL, memory
\* admission) has no side effect: the engine is unchanged by the call and
\* the call added no record to the AOL.
C5_RejectedSetNoSideEffect ==
    [][\A c \in ExecClients :
        (Returns(c) /\ cmd'[c].name = "SET" /\ resp'[c].kind = "Error")
        => (engine' = engine /\ logged_op'[c] = <<>>)]_vars

\* C6: if the AOL cannot persist an operation, the mutating command is
\* answered with an Error.  Under Always, once the queue is drained, a
\* record that is not in the log is one the writer failed to persist.
C6_PersistFailureIsError ==
    \A c \in ExecClients :
        (config.fsync_every = 0 /\ pc[c] = "idle" /\ logged_op[c] # <<>>
            /\ queue = <<>> /\ ~InLog(logged_op[c][1]))
        => resp[c].kind = "Error"

(***************************************************************************)
(* SpecDurable: writes, create_snapshot with compaction, crash, restart    *)
(* and recovery under the Always policy.                                   *)
(***************************************************************************)
InitDurable ==
    \E m \in MaxMemoryChoices :
        InitWith([max_memory |-> m, fsync_every |-> 0], MaxDurableCmds)

NextDurable ==
    \/ \E c \in ExecClients, command \in DurableExecCommands : ExecLog(c, command)
    \/ \E c \in ExecClients : ExecDispatch(c)
    \/ \E command \in DurableTcpCommands : TcpCommand(command)
    \/ WriterStep
    \/ SnapCapture
    \/ SnapPublish(clock + 1)
    \/ CompactScan
    \/ CompactTemp
    \/ CompactRename
    \/ Crash
    \/ Restart
    \/ RecoverSnapshot
    \/ RecoverAof

SpecDurable == InitDurable /\ [][NextDurable]_vars

(***************************************************************************)
(* SpecRecover: RecoveryManager::recover as a function of what it finds in *)
(* the data directory -- any latest snapshot and any log, valid records    *)
(* and unreadable lines alike -- run once and then once more into the same *)
(* engine.                                                                 *)
(***************************************************************************)
\* A variant of the second recover that resumes the replay after the
\* operations the previous run has counted as replayed.
RecoverAgainResume ==
    /\ phase = "running"
    /\ \E order \in Orders(IF snap_latest = <<>> THEN {}
                            ELSE DOMAIN snap_latest[1].data) :
        LET s1 == IF snap_latest = <<>> THEN [ok |-> TRUE, eng |-> engine]
                  ELSE RestoreEntries(engine, snap_latest[1].data, order)
            operations == read_operations(files[live])
            rest == SubSeq(operations, rstats.aof_operations_replayed + 1,
                           Len(operations))
            r == IF s1.ok THEN ReplayOperations(s1.eng, rest, 0)
                 ELSE [ok |-> FALSE, eng |-> s1.eng, replayed |-> 0]
        IN  /\ engine' = r.eng
            /\ rstats' = [rstats EXCEPT !.ok = r.ok]
            /\ phase' = IF r.ok THEN "recovered_again" ELSE "failed"
    /\ UNCHANGED << config, extVars, aofVars, disk_ok, snapFileVars, snapTaskVars,
                    callerVars, ncrash, ghostVars >>

\* recover called again on the engine a first recover has filled.
RecoverAgain ==
    /\ phase = "running"
    /\ \E order \in Orders(IF snap_latest = <<>> THEN {}
                            ELSE DOMAIN snap_latest[1].data) :
        LET s1 == IF snap_latest = <<>> THEN [ok |-> TRUE, eng |-> engine]
                  ELSE RestoreEntries(engine, snap_latest[1].data, order)
            operations == read_operations(files[live])
            r == IF s1.ok THEN ReplayOperations(s1.eng, operations, 0)
                 ELSE [ok |-> FALSE, eng |-> s1.eng, replayed |-> 0]
        IN  /\ engine' = r.eng
            /\ rstats' = [snapshot_loaded |-> snap_latest # <<>>,
                          keys_from_snapshot |->
                              IF snap_latest = <<>> THEN 0
                              ELSE Cardinality(DOMAIN snap_latest[1].data),
                          aof_operations_total |->
                              IF s1.ok THEN Len(operations) ELSE 0,
                          aof_operations_replayed |-> r.replayed,
                          final_key_count |->
                              IF r.ok THEN EngineStats(r.eng).total_keys ELSE 0,
                          ok |-> r.ok]
            /\ phase' = IF r.ok THEN "recovered_again" ELSE "failed"
    /\ UNCHANGED << config, extVars, aofVars, disk_ok, snapFileVars, snapTaskVars,
                    callerVars, ncrash, ghostVars >>

RecoverLines ==
    { to_aof_entry(OpPut(<<"a">>, <<118>>)),
      to_aof_entry(OpPut(<<"a">>, <<119>>)),
      to_aof_entry(OpPut(<<"b">>, <<>>)),
      to_aof_entry(OpDelete(<<"a">>)),
      <<"X">> }

RECURSIVE SeqsUpTo(_, _)
SeqsUpTo(S, n) ==
    IF n = 0 THEN { <<>> }
    ELSE LET shorter == SeqsUpTo(S, n - 1)
         IN  shorter \cup { Append(q, x) : q \in shorter, x \in S }

\* The version string a later release of the program writes.
NewerVersion == "NEWER_THAN_CARGO_PKG_VERSION"

RecoverSnapshots ==
    { <<>>,
      << SnapshotNew(EmptyMap, 1) >>,
      << SnapshotNew(MapPut(EmptyMap, <<"a">>, <<118>>), 1) >>,
      << SnapshotNew(MapPut(MapPut(EmptyMap, <<"a">>, <<119>>), <<"b">>, <<>>), 1) >>,
      << [SnapshotNew(MapPut(EmptyMap, <<"b">>, <<118>>), 1)
             EXCEPT !.version = NewerVersion] >> }

InitRecover ==
    \E m \in MaxMemoryChoices, log \in SeqsUpTo(RecoverLines, MaxLogLines),
       snap \in RecoverSnapshots :
        InitState([max_memory |-> m, fsync_every |-> 0], 0,
                  "recover_snapshot", log, snap)

NextRecover ==
    \/ RecoverSnapshot
    \/ RecoverAof
    \/ RecoverAgain

SpecRecover == InitRecover /\ [][NextRecover]_vars

(***************************************************************************)
(* Properties checked under SpecRecover.                                   *)
(***************************************************************************)
SnapshotMap == IF snap_latest = <<>> THEN EmptyMap ELSE snap_latest[1].data

\* C9: a recover that returns Ok leaves the engine holding the snapshot's
\* map updated by every valid log record in order, and reports
\* keys_from_snapshot and final_key_count consistent with that.
C9_RecoverIsSnapshotPlusLog ==
    phase = "running" =>
        /\ engine.data = ApplyOps(SnapshotMap, read_operations(files[live]))
        /\ rstats.snapshot_loaded = (snap_latest # <<>>)
        /\ rstats.keys_from_snapshot = Cardinality(DOMAIN SnapshotMap)
        /\ rstats.final_key_count = Cardinality(DOMAIN engine.data)

C9_Witness ==
    /\ phase = "running"
    /\ rstats.snapshot_loaded
    /\ rstats.keys_from_snapshot = 2
    /\ rstats.aof_operations_replayed = 2
    /\ Len(files[live]) = 3
    /\ DOMAIN engine.data = { <<"b">> }

RecoveryEnds ==
    /\ phase \in {"recover_snapshot", "recover_aof"}
    /\ phase' \in {"running", "failed"}

\* C7: keys written and acknowledged before and after a create_snapshot
\* are all present, with their values, after a crash and recovery.  The
\* crash is taken with the writer's queue drained, so that every
\* acknowledged record has been handed to the log file; all writes went
\* through execute and none overlapped a create_snapshot.
C7_SnapshotThenWritesSurvive ==
    [][(RecoveryEnds /\ crash_drained /\ snap_latest # <<>>
            /\ done[TcpConn] = 0 /\ ~snap_overlap)
        => \A k \in DOMAIN acked :
              acked[k] # <<>>
                => (k \in DOMAIN engine'.data /\ engine'.data[k] = acked[k])
      ]_vars

\* C8: after create_snapshot has returned Ok with no concurrent writer and
\* nothing logged since, recovery into an empty engine ends with exactly
\* the key-to-value state the engine had when the snapshot was taken.
C8_RecoverReproducesSnapshotState ==
    [][(RecoveryEnds /\ snap_ref.valid) => engine'.data = snap_ref.state]_vars

C8_Witness ==
    /\ phase = "running"
    /\ ncrash > 0
    /\ snap_ref.valid
    /\ Cardinality(DOMAIN snap_ref.state) = 2
    /\ engine.data = snap_ref.state
    /\ \E k \in DOMAIN engine.data : engine.data[k] = <<>>

(***************************************************************************)
(* SpecSnapshot: Snapshotter::create_snapshot one file-system step at a    *)
(* time, with the wall clock advancing and the process free to die         *)
(* between any two steps.                                                  *)
(***************************************************************************)
SnapDataChoices == { MapPut(EmptyMap, <<"a">>, <<118>>) }

CurName == SnapFileName(snap_cur[1].timestamp)

\* create_snapshot up to File::create(&temp_path): the Snapshot is built
\* with the current time and its temporary file exists, empty.
SnapshotterBegin(data) ==
    /\ phase = "running"
    /\ snap_pc = "idle"
    /\ nsnap < MaxSnapCalls
    /\ nsnap' = nsnap + 1
    /\ LET snapshot == SnapshotNew(data, clock) IN
        /\ snap_cur' = << snapshot >>
        /\ snap_tmp' = MapPut(snap_tmp, SnapFileName(clock),
                              [snapshot |-> snapshot, complete |-> FALSE])
    /\ snap_pc' = "tmp_created"
    /\ UNCHANGED << engine, config, extRest, aofVars, disk_ok, snapFileVars, snap_data,
                    compact_state, phase, rstats, callerVars, ncrash, ghostVars,
                    latest_torn, nsnap_ok >>

\* file.write_all(&serialized) and file.sync_all().
SnapshotterWriteTemp ==
    /\ snap_pc = "tmp_created"
    /\ snap_tmp' = [snap_tmp EXCEPT ![CurName].complete = TRUE]
    /\ snap_pc' = "tmp_synced"
    /\ UNCHANGED << engine, config, extRest, aofVars, disk_ok, snapFileVars, snap_data,
                    compact_state, nsnap, phase, rstats, callerVars, ncrash,
                    ghostVars, latest_torn, snap_cur, nsnap_ok >>

\* tokio::fs::rename(&temp_path, &filepath): the temporary file takes the
\* timestamped name, replacing any file that has it.
SnapshotterRename ==
    /\ snap_pc = "tmp_synced"
    /\ snap_tmp[CurName].complete
    /\ snap_files' = MapPut(snap_files, CurName, snap_tmp[CurName].snapshot)
    /\ snap_tmp' = MapRemove(snap_tmp, CurName)
    /\ snap_pc' = "renamed"
    /\ UNCHANGED << engine, config, extRest, aofVars, disk_ok, snap_latest, clock,
                    snap_data, compact_state, nsnap, phase, rstats, callerVars,
                    ncrash, ghostVars, latest_torn, snap_cur, nsnap_ok >>

\* update_latest_symlink: remove_file(&latest_path) if it exists.
SnapshotterRemoveLatest ==
    /\ snap_pc = "renamed"
    /\ snap_latest' = <<>>
    /\ latest_torn' = FALSE
    /\ snap_pc' = "latest_removed"
    /\ UNCHANGED << engine, config, extRest, aofVars, disk_ok, snap_files, clock,
                    snap_data, compact_state, nsnap, phase, rstats, callerVars,
                    ncrash, ghostVars, snap_tmp, snap_cur, nsnap_ok >>

\* update_latest_symlink: tokio::fs::copy creates snapshot-latest.rdb and
\* starts to fill it with the bytes of the timestamped file.
SnapshotterCopyStart ==
    /\ snap_pc = "latest_removed"
    /\ snap_latest' = << snap_files[CurName] >>
    /\ latest_torn' = TRUE
    /\ snap_pc' = "copying"
    /\ UNCHANGED << engine, config, extRest, aofVars, disk_ok, snap_files, clock,
                    snap_data, compact_state, nsnap, phase, rstats, callerVars,
                    ncrash, ghostVars, snap_tmp, snap_cur, nsnap_ok >>

\* update_latest_symlink: the copy has written its last byte.
SnapshotterCopyEnd ==
    /\ snap_pc = "copying"
    /\ latest_torn' = FALSE
    /\ snap_pc' = "copied"
    /\ UNCHANGED << engine, config, extRest, aofVars, disk_ok, snapFileVars, snap_data,
                    compact_state, nsnap, phase, rstats, callerVars, ncrash,
                    ghostVars, snap_tmp, snap_cur, nsnap_ok >>

\* cleanup_old_snapshots, then Ok(filepath).
SnapshotterCleanup ==
    /\ snap_pc = "copied"
    /\ snap_files' = cleanup_old_snapshots(snap_files)
    /\ snap_cur' = <<>>
    /\ nsnap_ok' = nsnap_ok + 1
    /\ snap_pc' = "idle"
    /\ UNCHANGED << engine, config, extRest, aofVars, disk_ok, snap_latest, clock,
                    snap_data, compact_state, nsnap, phase, rstats, callerVars,
                    ncrash, ghostVars, snap_tmp, latest_torn >>

\* The process dies inside create_snapshot and is started again: the
\* files stay as the dead process left them.
SnapshotterCrash ==
    /\ snap_pc # "idle"
    /\ ncrash < MaxCrashes
    /\ ncrash' = ncrash + 1
    /\ snap_cur' = <<>>
    /\ snap_pc' = "idle"
    /\ UNCHANGED << engine, config, extRest, aofVars, disk_ok, snapFileVars, snap_data,
                    compact_state, nsnap, phase, rstats, callerVars, ghostVars,
                    snap_tmp, latest_torn, nsnap_ok >>

\* The wall clock advances.  create_snapshot reads it once, in
\* Snapshot::new, so time passing during a call is time passing after it.
ClockTick ==
    /\ clock < MaxTicks
    /\ snap_pc = "idle"
    /\ clock' = clock + 1
    /\ UNCHANGED << engine, config, extRest, aofVars, disk_ok, snap_files, snap_latest,
                    snapTaskVars, phase, rstats, callerVars, ncrash, ghostVars,
                    extVars >>

InitSnapshot ==
    InitState([max_memory |-> 1000, fsync_every |-> 0], 0, "running", <<>>, <<>>)

NextSnapshot ==
    \/ \E data \in SnapDataChoices : SnapshotterBegin(data)
    \/ SnapshotterWriteTemp
    \/ SnapshotterRename
    \/ SnapshotterRemoveLatest
    \/ SnapshotterCopyStart
    \/ SnapshotterCopyEnd
    \/ SnapshotterCleanup
    \/ SnapshotterCrash
    \/ ClockTick

SpecSnapshot == InitSnapshot /\ [][NextSnapshot]_vars

(***************************************************************************)
(* Properties checked under SpecSnapshot.                                  *)
(***************************************************************************)
\* C11: whenever no create_snapshot is under way -- in particular after a
\* crash between any two of its steps -- snapshot-latest.rdb, if it
\* exists, is complete and decodable, never a partial file.  (The
\* timestamped files only ever appear by the rename of a synced file.)
C11_SnapshotFilesNeverTorn ==
    (snap_pc = "idle" /\ snap_latest # <<>>) => ~latest_torn

\* A call of Snapshotter::create_snapshot returns Ok in this step.
SnapshotterReturnsOk ==
    snap_pc = "copied" /\ snap_pc' = "idle" /\ nsnap_ok' = nsnap_ok + 1

\* C17: when create_snapshot returns Ok, at most five timestamped files
\* remain, none of the removed ones is newer than a kept one, and from the
\* fifth successful snapshot in a row on there are exactly five
\* timestamped files next to snapshot-latest.rdb.
C17_RetentionKeepsFiveNewest ==
    [][SnapshotterReturnsOk =>
        /\ Cardinality(DOMAIN snap_files') <= KEEP_SNAPSHOTS
        /\ DOMAIN snap_files' \subseteq DOMAIN snap_files
        /\ \A n \in DOMAIN snap_files', m \in DOMAIN snap_files \ DOMAIN snap_files' :
              snap_files[m].timestamp < snap_files[n].timestamp
        /\ (ncrash = 0 /\ nsnap_ok' >= KEEP_SNAPSHOTS)
              => /\ Cardinality(DOMAIN snap_files') = KEEP_SNAPSHOTS
                 /\ snap_latest' # <<>>
      ]_vars

\* C18: a published timestamped file never changes its contents, and it
\* disappears only in the retention cleanup.
C18_PublishedFileImmutable ==
    [][\A n \in DOMAIN snap_files :
          IF n \in DOMAIN snap_files'
          THEN snap_files'[n] = snap_files[n]
          ELSE SnapshotterReturnsOk]_vars

(***************************************************************************)
(* The MemoryEngine called directly by one task (storage/engine/memory.rs) *)
(***************************************************************************)
\* The keys of a HashMap in the order its iterator yields them.
RECURSIVE IterOrder(_)
IterOrder(S) ==
    IF S = {} THEN <<>>
    ELSE LET k == CHOOSE x \in S : TRUE IN <<k>> \o IterOrder(S \ {k})

ShardKeys(e, s) == {k \in DOMAIN e.data : get_shard_index(k) = s}

SelectPrefix(ks, prefix) == SelectSeq(ks, LAMBDA k : IsPrefix(prefix, k))

\* A scan that stops before the last shard.
RECURSIVE ScanShardsSkipLast(_, _, _)
ScanShardsSkipLast(e, prefix, s) ==
    IF s >= ShardCount - 1 THEN <<>>
    ELSE SelectPrefix(IterOrder(ShardKeys(e, s)), prefix)
             \o ScanShardsSkipLast(e, prefix, s + 1)

\* MemoryEngine::scan from shard s on: the Vec<String> it builds.
RECURSIVE ScanShards(_, _, _)
ScanShards(e, prefix, s) ==
    IF s >= ShardCount THEN <<>>
    ELSE SelectPrefix(IterOrder(ShardKeys(e, s)), prefix)
             \o ScanShards(e, prefix, s + 1)

EngineScanSeq(e, prefix) == ScanShards(e, prefix, 0)

\* Everything but the engine and its direct callers.
engRest == << persistVars, wres, concVars, submitted, serverVars >>

EngCall(op, k, v, ok, ks, e) ==
    /\ eres' = [op |-> op, key |-> k, value |-> v, ok |-> ok, keys |-> ks,
                usage |-> EngineStats(e).memory_usage]
    /\ engine' = e
    /\ neng' = neng + 1
    /\ gets' = IF op # "get" THEN gets
               ELSE IF ok THEN [gets EXCEPT !.found = @ + 1]
               ELSE [gets EXCEPT !.absent = @ + 1]

EngGuard == phase = "running" /\ neng < MaxEngineCalls

EngSet(k, v) ==
    /\ EngGuard
    /\ LET r == EngineSet(engine, k, v) IN
       /\ EngCall("set", k, v, r.ok, <<>>, r.eng)
       /\ elast' = IF r.ok
                   THEN [elast EXCEPT ![k] = [kind |-> "set", value |-> v]]
                   ELSE elast
    /\ UNCHANGED engRest

EngDelete(k) ==
    /\ EngGuard
    /\ LET r == EngineDelete(engine, k) IN
       EngCall("delete", k, <<>>, r.deleted, <<>>, r.eng)
    /\ elast' = [elast EXCEPT ![k] = [kind |-> "delete", value |-> <<>>]]
    /\ UNCHANGED engRest

EngGet(k) ==
    /\ EngGuard
    /\ LET r == EngineGet(engine, k) IN
       EngCall("get", k, r.value, r.found, <<>>, r.eng)
    /\ UNCHANGED << engRest, elast >>

EngExists(k) ==
    /\ EngGuard
    /\ EngCall("exists", k, <<>>, EngineExists(engine, k), <<>>, engine)
    /\ UNCHANGED << engRest, elast >>

EngScan(prefix) ==
    /\ EngGuard
    /\ EngCall("scan", prefix, <<>>, TRUE, EngineScanSeq(engine, prefix), engine)
    /\ UNCHANGED << engRest, elast >>

EngStats ==
    /\ EngGuard
    /\ EngCall("stats", <<>>, <<>>, TRUE, <<>>, engine)
    /\ UNCHANGED << engRest, elast >>

InitEngine ==
    \E mm \in EngineMaxMemory :
        InitState([max_memory |-> mm, fsync_every |-> 0], 0, "running", <<>>, <<>>)

NextEngine ==
    \/ \E k \in EngineKeys, v \in Values : EngSet(k, v)
    \/ \E k \in EngineKeys : EngDelete(k)
    \/ \E k \in EngineKeys : EngGet(k)
    \/ \E k \in EngineKeys : EngExists(k)
    \/ \E p \in EnginePrefixes : EngScan(p)
    \/ EngStats

SpecEngine == InitEngine /\ [][NextEngine]_vars

\* A direct engine call returns in this step.
EngReturns(op) == neng' = neng + 1 /\ eres'.op = op

\* C12: the last accepted set or delete on a key decides what get and
\* exists return for it -- the written value and true after a set, absent
\* and false after a delete -- and delete returns true iff the key was
\* present, i.e. iff the last accepted operation on it was a set.
C12_LastWriteDecides ==
    [][/\ EngReturns("get") =>
            LET l == elast[eres'.key] IN
            /\ eres'.ok = (l.kind = "set")
            /\ eres'.ok => eres'.value = l.value
       /\ EngReturns("exists") => eres'.ok = (elast[eres'.key].kind = "set")
       /\ EngReturns("delete") => eres'.ok = (elast[eres'.key].kind = "set")
      ]_vars

\* A get returned the value last set on its key, after a delete and a set
\* on other keys.
C12_Witness ==
    /\ eres.op = "get" /\ eres.ok /\ eres.value = <<118>>
    /\ eres.key = <<"a">>
    /\ elast[<<"a", "b">>].kind = "delete"
    /\ elast[<<"b">>].kind = "set"

\* Sum of the footprints of the stored entries.
RECURSIVE FootprintSum(_, _)
FootprintSum(data, ks) ==
    IF ks = {} THEN 0
    ELSE LET k == CHOOSE x \in ks : TRUE IN
         estimate_size(k, data[k]) + FootprintSum(data, ks \ {k})

\* C14: a set that would drive total memory above max_memory is rejected;
\* a rejected set leaves the map, the shard counters, the process-wide
\* counter and total_operations unchanged; memory_usage of stats never
\* exceeds max_memory.
C14_AdmissionRule ==
    [][/\ EngReturns("set") =>
            LET k == eres'.key
                old == IF k \in DOMAIN engine.data
                       THEN estimate_size(k, engine.data[k]) ELSE 0
                projected == engine.total_memory - old
                                 + Len(k) + Len(eres'.value) + EntryOverhead
            IN /\ projected > config.max_memory => ~eres'.ok
               /\ ~eres'.ok => engine' = engine
       /\ neng' = neng + 1 => eres'.usage <= config.max_memory
       /\ EngineStats(engine').memory_usage <= config.max_memory
      ]_vars

\* A set was rejected by the limit with entries stored.
C14_Witness ==
    /\ eres.op = "set" /\ ~eres.ok
    /\ Cardinality(DOMAIN engine.data) >= 2
    /\ engine.total_memory + estimate_size(eres.key, eres.value) > config.max_memory

StartsWith(k, p) == \E n \in 0..Len(k) : SubSeq(k, 1, n) = p

\* C15: scan(p) returns exactly the stored keys that start with p, each
\* once, the empty prefix included.
C15_ScanExactlyPrefix ==
    [][EngReturns("scan") =>
          LET ks == eres'.keys IN
          /\ \A i, j \in 1..Len(ks) : ks[i] = ks[j] => i = j
          /\ {ks[i] : i \in 1..Len(ks)}
                 = {k \in DOMAIN engine.data : StartsWith(k, eres'.key)}
      ]_vars

\* A scan with a one-character prefix over keys of both shards returned
\* two keys and left one out.
C15_Witness ==
    /\ eres.op = "scan" /\ eres.key = <<"a">>
    /\ Len(eres.keys) = 2
    /\ Cardinality(DOMAIN engine.data) = 3

\* A scan with the empty prefix returned every key.
C15_WitnessEmptyPrefix ==
    /\ eres.op = "scan" /\ eres.key = <<>>
    /\ Len(eres.keys) = 3

(***************************************************************************)
(* The wire protocol (protocol/parser.rs, server/connection.rs).           *)
(***************************************************************************)
LowerChars == <<"a", "b", "c", "d", "e", "g", "l", "n", "s", "t">>
UpperChars == <<"A", "B", "C", "D", "E", "G", "L", "N", "S", "T">>

\* str::to_uppercase over the letters the inputs use.
ToUpperChar(c) ==
    IF \E i \in 1..Len(LowerChars) : LowerChars[i] = c
    THEN UpperChars[CHOOSE i \in 1..Len(LowerChars) : LowerChars[i] = c]
    ELSE c

ToUppercase(s) == [i \in 1..Len(s) |-> ToUpperChar(s[i])]

\* str::split_whitespace: runs of whitespace separate, no empty parts.
RECURSIVE SplitWhitespace(_)
SplitWhitespace(s) ==
    LET t == TrimStart(s) IN
    IF Len(t) = 0 THEN <<>>
    ELSE IF \A i \in 1..Len(t) : ~IsWhitespace(t[i]) THEN << t >>
    ELSE LET i == CHOOSE j \in 1..Len(t) :
                     IsWhitespace(t[j]) /\ \A h \in 1..(j - 1) : ~IsWhitespace(t[h])
         IN << SubSeq(t, 1, i - 1) >> \o SplitWhitespace(SubSeq(t, i + 1, Len(t)))

\* ProtocolParser::parse_command: [ok, cmd].
parse_command(message) ==
    LET m == Trim(message)
        parts == SplitWhitespace(m)
        command == ToUppercase(parts[1])
        err == [ok |-> FALSE, cmd |-> CmdPing]
    IN
    IF Len(m) = 0 THEN err
    ELSE IF command = <<"G", "E", "T">> THEN
        IF Len(parts) < 2 THEN err ELSE [ok |-> TRUE, cmd |-> CmdGet(parts[2])]
    ELSE IF command = <<"S", "E", "T">> THEN
        IF Len(parts) < 3 THEN err
        ELSE IF Len(parts) = 3 THEN
            LET dec == Base64Decode(parts[3]) IN
            [ok |-> TRUE,
             cmd |-> CmdSet(parts[2], IF dec.ok THEN dec.bytes ELSE parts[3], FALSE)]
        ELSE [ok |-> TRUE,
              cmd |-> CmdSet(parts[2], JoinSpace(SubSeq(parts, 3, Len(parts))), FALSE)]
    ELSE IF command \in {<<"D", "E", "L", "E", "T", "E">>, <<"D", "E", "L">>} THEN
        IF Len(parts) < 2 THEN err ELSE [ok |-> TRUE, cmd |-> CmdDelete(parts[2])]
    ELSE IF command = <<"E", "X", "I", "S", "T">> THEN
        IF Len(parts) < 2 THEN err ELSE [ok |-> TRUE, cmd |-> CmdExist(parts[2])]
    ELSE IF command = <<"S", "C", "A", "N">> THEN
        [ok |-> TRUE, cmd |-> CmdScan(IF Len(parts) >= 2 THEN parts[2] ELSE <<>>)]
    ELSE IF command = <<"S", "T", "A", "T", "S">> THEN [ok |-> TRUE, cmd |-> CmdStats]
    ELSE IF command = <<"P", "I", "N", "G">> THEN [ok |-> TRUE, cmd |-> CmdPing]
    ELSE err

WireLines ==
    { <<"S", "C", "A", "N">>,
      <<"s", "c", "a", "n", " ">>,
      <<"S", "C", "A", "N", " ", "a">>,
      <<"S", "E", "T", " ", "a", " ", "d", "g", "=", "=">>,
      <<"S", "E", "T", " ", "a", "b", " ", "d", "g", "=", "=">>,
      <<"s", "e", "t", " ", " ", "b", " ", "d", "g", "=", "=">>,
      <<"D", "E", "L", " ", "a">>,
      <<"G", "E", "T", " ", "a">>,
      <<"G", "E", "T">> }

\* ConnectionHandler::process_command on one received line.
ProcessLine(message) ==
    /\ phase = "running"
    /\ budget > 0
    /\ budget' = budget - 1
    /\ LET p == parse_command(message) IN
       IF p.ok
       THEN LET r == DispatcherExecute(p.cmd, engine) IN
            /\ engine' = r.eng
            /\ wres' = [line |-> message, resp |-> r.resp]
       ELSE /\ wres' = [line |-> message, resp |-> RespError("Parse error")]
            /\ UNCHANGED engine
    /\ UNCHANGED << config, aofVars, disk_ok, snapFileVars, snapTaskVars, phase,
                    rstats, pc, cmd, resp, logged_op, done, ncrash, ghostVars,
                    snapDirVars, nsnap_ok, engCallVars, concVars, submitted,
                    serverVars >>

InitWire ==
    InitState([max_memory |-> 1000, fsync_every |-> 0], MaxWireLines, "running",
              <<>>, <<>>)

NextWire == \E message \in WireLines : ProcessLine(message)

SpecWire == InitWire /\ [][NextWire]_vars

\* C16: a SCAN line with no prefix, parsed from the wire and run through
\* the dispatcher, is answered with the keys of all stored entries.
C16_ScanWithoutPrefixReturnsAll ==
    [][(/\ budget' = budget - 1
        /\ parse_command(wres'.line).ok
        /\ parse_command(wres'.line).cmd = CmdScan(<<>>))
          => wres'.resp = RespKeys(DOMAIN engine.data)
      ]_vars

(***************************************************************************)
(* MemoryEngine::set and ::delete called by concurrent tasks, one atomic   *)
(* access or lock operation per step (storage/engine/memory.rs).           *)
(***************************************************************************)
ConcKeys == {<<"a">>, <<"a", "b">>, <<"b">>}

\* Everything but the engine, the concurrent callers and the shard locks.
lockRest == << persistVars, engCallVars, wres, submitted, serverVars >>
\* The same and the read guards, which set and delete never take.
concRest == << lockRest, rlock >>

Goto(t, label) == tpc' = [tpc EXCEPT ![t] = label]

MyShard(t) == get_shard_index(tloc[t].key)

\* set: estimate_size and check_memory_limit, before any lock is taken.
ConcSetCheck(t, k, v) ==
    /\ phase = "running" /\ tpc[t] = "idle" /\ nconc < MaxConcCalls
    /\ nconc' = nconc + 1
    /\ tloc' = [tloc EXCEPT ![t] = [key |-> k, value |-> v,
                                    size |-> estimate_size(k, v), old_size |-> 0]]
    /\ IF check_memory_limit(engine, estimate_size(k, v))
       THEN Goto(t, "set_lock") ELSE Goto(t, "idle")
    /\ UNCHANGED << engine, elock, concRest >>

\* set: shard.data.write().
ConcSetLock(t) ==
    /\ tpc[t] = "set_lock"
    /\ elock[MyShard(t)] = "free" /\ rlock[MyShard(t)] = {}
    /\ elock' = [elock EXCEPT ![MyShard(t)] = t]
    /\ Goto(t, "set_insert")
    /\ UNCHANGED << engine, tloc, nconc, concRest >>

\* set: old_size and guard.insert.
ConcSetInsert(t) ==
    /\ tpc[t] = "set_insert"
    /\ LET k == tloc[t].key IN
       /\ tloc' = [tloc EXCEPT ![t].old_size =
                      IF k \in DOMAIN engine.data
                      THEN estimate_size(k, engine.data[k]) ELSE 0]
       /\ engine' = [engine EXCEPT !.data = MapPut(@, k, tloc[t].value)]
    /\ Goto(t, "set_total")
    /\ UNCHANGED << elock, nconc, concRest >>

\* set: update_memory(size - old_size).
ConcSetTotal(t) ==
    /\ tpc[t] = "set_total"
    /\ engine' = update_memory(engine, tloc[t].size - tloc[t].old_size)
    /\ Goto(t, "set_shard_add")
    /\ UNCHANGED << tloc, elock, nconc, concRest >>

\* set: shard.size.fetch_add(size).
ConcSetShardAdd(t) ==
    /\ tpc[t] = "set_shard_add"
    /\ engine' = [engine EXCEPT !.shard_size[MyShard(t)] = @ + tloc[t].size]
    /\ Goto(t, "set_shard_sub")
    /\ UNCHANGED << tloc, elock, nconc, concRest >>

\* A set that forgets to take the replaced entry off the shard counter.
ConcSetShardSubSkip(t) ==
    /\ tpc[t] = "set_shard_sub"
    /\ Goto(t, "set_ops")
    /\ UNCHANGED << engine, tloc, elock, nconc, concRest >>

\* set: shard.size.fetch_sub(old_size) when an entry was replaced.
ConcSetShardSub(t) ==
    /\ tpc[t] = "set_shard_sub"
    /\ engine' = IF tloc[t].old_size > 0
                 THEN [engine EXCEPT !.shard_size[MyShard(t)] = @ - tloc[t].old_size]
                 ELSE engine
    /\ Goto(t, "set_ops")
    /\ UNCHANGED << tloc, elock, nconc, concRest >>

\* set: total_operations += 1, then the guard is dropped on return.
ConcSetReturn(t) ==
    /\ tpc[t] = "set_ops"
    /\ engine' = [engine EXCEPT !.total_operations = @ + 1]
    /\ elock' = [elock EXCEPT ![MyShard(t)] = "free"]
    /\ Goto(t, "idle")
    /\ UNCHANGED << tloc, nconc, concRest >>

\* delete is called.
ConcDeleteCall(t, k) ==
    /\ phase = "running" /\ tpc[t] = "idle" /\ nconc < MaxConcCalls
    /\ nconc' = nconc + 1
    /\ tloc' = [tloc EXCEPT ![t] = [key |-> k, value |-> <<>>,
                                    size |-> 0, old_size |-> 0]]
    /\ Goto(t, "del_lock")
    /\ UNCHANGED << engine, elock, concRest >>

\* A delete that goes on without the shard's write guard.
ConcDeleteNoLock(t) ==
    /\ tpc[t] = "del_lock"
    /\ Goto(t, "del_remove")
    /\ UNCHANGED << engine, tloc, elock, nconc, concRest >>

\* delete: shard.data.write().
ConcDeleteLock(t) ==
    /\ tpc[t] = "del_lock"
    /\ elock[MyShard(t)] = "free" /\ rlock[MyShard(t)] = {}
    /\ elock' = [elock EXCEPT ![MyShard(t)] = t]
    /\ Goto(t, "del_remove")
    /\ UNCHANGED << engine, tloc, nconc, concRest >>

\* delete: guard.remove(key); None returns Ok(false) and drops the guard.
ConcDeleteRemove(t) ==
    /\ tpc[t] = "del_remove"
    /\ LET k == tloc[t].key IN
       IF k \in DOMAIN engine.data
       THEN /\ tloc' = [tloc EXCEPT ![t].size = estimate_size(k, engine.data[k])]
            /\ engine' = [engine EXCEPT !.data = MapRemove(@, k)]
            /\ Goto(t, "del_total")
            /\ UNCHANGED elock
       ELSE /\ elock' = [elock EXCEPT ![MyShard(t)] = "free"]
            /\ Goto(t, "idle")
            /\ UNCHANGED << engine, tloc >>
    /\ UNCHANGED << nconc, concRest >>

\* delete: update_memory(-size).
ConcDeleteTotal(t) ==
    /\ tpc[t] = "del_total"
    /\ engine' = update_memory(engine, 0 - tloc[t].size)
    /\ Goto(t, "del_shard_sub")
    /\ UNCHANGED << tloc, elock, nconc, concRest >>

\* delete: shard.size.fetch_sub(size).
ConcDeleteShardSub(t) ==
    /\ tpc[t] = "del_shard_sub"
    /\ engine' = [engine EXCEPT !.shard_size[MyShard(t)] = @ - tloc[t].size]
    /\ Goto(t, "del_ops")
    /\ UNCHANGED << tloc, elock, nconc, concRest >>

\* delete: total_operations += 1, Ok(true), the guard is dropped.
ConcDeleteReturn(t) ==
    /\ tpc[t] = "del_ops"
    /\ engine' = [engine EXCEPT !.total_operations = @ + 1]
    /\ elock' = [elock EXCEPT ![MyShard(t)] = "free"]
    /\ Goto(t, "idle")
    /\ UNCHANGED << tloc, nconc, concRest >>

InitEngineConc ==
    \E mm \in EngineMaxMemory :
        InitState([max_memory |-> mm, fsync_every |-> 0], 0, "running", <<>>, <<>>)

NextEngineConc ==
    \E t \in Threads :
        \/ \E k \in ConcKeys, v \in Values : ConcSetCheck(t, k, v)
        \/ ConcSetLock(t)
        \/ ConcSetInsert(t)
        \/ ConcSetTotal(t)
        \/ ConcSetShardAdd(t)
        \/ ConcSetShardSub(t)
        \/ ConcSetReturn(t)
        \/ \E k \in ConcKeys : ConcDeleteCall(t, k)
        \/ ConcDeleteLock(t)
        \/ ConcDeleteRemove(t)
        \/ ConcDeleteTotal(t)
        \/ ConcDeleteShardSub(t)
        \/ ConcDeleteReturn(t)

SpecEngineConc == InitEngineConc /\ [][NextEngineConc]_vars

\* C13: whenever no set or delete holds a shard lock, the process-wide
\* memory counter equals the sum of the shard counters, and both equal the
\* sum over the stored entries of len(key) + len(value) + 64.
C13_CountersAgree ==
    (\A s \in Shards : elock[s] = "free") =>
        /\ engine.total_memory = SumOver(Shards, engine.shard_size)
        /\ engine.total_memory = FootprintSum(engine.data, DOMAIN engine.data)

\* Two tasks have called set on different shards, one of them replacing
\* an entry, and all calls have returned.
C13_Witness ==
    /\ \A s \in Shards : elock[s] = "free"
    /\ \A t \in Threads : tpc[t] = "idle"
    /\ tloc["t1"].old_size > 0
    /\ tloc["t2"].key # <<>> /\ get_shard_index(tloc["t2"].key) # get_shard_index(tloc["t1"].key)
    /\ Cardinality(DOMAIN engine.data) = 2

\* Steps of AppendOnlyFile::compact and a crash in the middle of it.
CompactWritesTemp == snap_pc = "scanned" /\ snap_pc' = "tmp_written"
CompactReturns == snap_pc = "tmp_written" /\ snap_pc' = "idle" /\ phase' = "running"
CrashInCompact == snap_pc \in {"scanned", "tmp_written"} /\ phase' = "down"

\* The live log holds exactly one Put record per entry of the state m.
OnePutPerEntry(lines, m) ==
    /\ Len(lines) = Cardinality(DOMAIN m)
    /\ \A k \in DOMAIN m : to_aof_entry(OpPut(k, m[k])) \in Range(lines)

\* C19: while compact writes its temporary file, and across a crash in
\* the middle of compact, the live log path keeps the complete
\* pre-compaction log; when compact returns the live path holds exactly
\* one Put record per entry of the provided state, and replaying it into
\* an empty store yields exactly that state.
C19_CompactReplacesAtomically ==
    [][/\ (CompactWritesTemp \/ CrashInCompact) => files'[live'] = files[live]
       /\ CompactReturns =>
            /\ OnePutPerEntry(files'[live'], compact_state)
            /\ ApplyOps(EmptyMap, read_operations(files'[live'])) = compact_state
      ]_vars

(***************************************************************************)
(* One task submitting operations to the AOL (storage/persistence/aof.rs). *)
(***************************************************************************)
SubmitOps == {OpPut(<<"a">>, <<118>>), OpDelete(<<"a">>), OpPut(<<"b">>, <<>>)}

\* A log_operation that puts the operation at the head of the queue.
LogSubmitFront(op) ==
    /\ phase = "running"
    /\ Len(submitted) < MaxSubmits
    /\ queue' = << op >> \o queue
    /\ submitted' = Append(submitted, op)
    /\ UNCHANGED << engine, config, files, live, tmp, bg_writer, aof_writer, wbuf,
                    operation_logged, aof_locked, disk_ok, snapFileVars,
                    snapTaskVars, phase, rstats, callerVars, ncrash, ghostVars,
                    snapDirVars, nsnap_ok, engCallVars, wres, concVars,
                    serverVars >>

\* AppendOnlyFile::log_operation: send_async on the unbounded channel.
LogSubmit(op) ==
    /\ phase = "running"
    /\ Len(submitted) < MaxSubmits
    /\ queue' = Append(queue, op)
    /\ submitted' = Append(submitted, op)
    /\ UNCHANGED << engine, config, files, live, tmp, bg_writer, aof_writer, wbuf,
                    operation_logged, aof_locked, disk_ok, snapFileVars,
                    snapTaskVars, phase, rstats, callerVars, ncrash, ghostVars,
                    snapDirVars, nsnap_ok, engCallVars, wres, concVars,
                    serverVars >>

InitOrder ==
    \E f \in FsyncEveryChoices :
        InitState([max_memory |-> 1000, fsync_every |-> f], 0, "running", <<>>, <<>>)

NextOrder ==
    \/ \E op \in SubmitOps : LogSubmit(op)
    \/ WriterStep
    \/ DiskFull

SpecOrder == InitOrder /\ [][NextOrder]_vars

\* s can be obtained from t by leaving elements out.
RECURSIVE IsSubsequence(_, _)
IsSubsequence(s, t) ==
    IF Len(s) = 0 THEN TRUE
    ELSE IF Len(t) = 0 THEN FALSE
    ELSE IF s[1] = t[1] THEN IsSubsequence(Tail(s), Tail(t))
    ELSE IsSubsequence(s, Tail(t))

\* C20: the records in the log file are records of the operations one
\* task submitted, in the order of submission: the file is the sequence
\* of submitted records with some left out (not yet written, or lost to a
\* write error), never reordered.
C20_FileKeepsSubmissionOrder ==
    IsSubsequence(files[live] \o wbuf,
                  [i \in 1..Len(submitted) |-> to_aof_entry(submitted[i])])

\* Three different operations are in the file.
C20_Witness ==
    /\ Len(files[live]) = 3
    /\ Cardinality(Range(files[live])) = 3

\* C21: from_aof_entry(to_aof_entry(op)) gives back op for every submitted
\* operation, the empty value included, and once every submitted
\* operation has been written read_operations returns the submitted
\* sequence unchanged.
C21_LogRoundTrip ==
    /\ \A i \in 1..Len(submitted) :
          from_aof_entry(to_aof_entry(submitted[i]))
              = [ok |-> TRUE, op |-> submitted[i]]
    /\ Len(files[live]) = Len(submitted)
          => read_operations(files[live]) = submitted

\* The round trip restricted to operations that are not a Put of the
\* empty value.
C21_LogRoundTripNonEmpty ==
    (\A i \in 1..Len(submitted) :
        submitted[i].type = "Put" => submitted[i].value # <<>>)
    => C21_LogRoundTrip

\* C22: a snapshot whose embedded version is newer than the running
\* program's is never loaded: recovery does not report it loaded and does
\* not go on to replay the log or to serve.
C22_NewerSnapshotRejected ==
    (snap_latest # <<>> /\ snap_latest[1].version = NewerVersion)
        => /\ ~rstats.snapshot_loaded
           /\ phase \in {"recover_snapshot", "failed"}

\* The operations of the well-formed lines of a log, in file order.
WellFormedOps(lines) ==
    LET good == SelectSeq(lines, LAMBDA l : from_aof_entry(l).ok)
    IN  [i \in 1..Len(good) |-> from_aof_entry(good[i]).op]

process_command(message, e) ==
    LET p == parse_command(message) IN
    IF p.ok THEN DispatcherExecute(p.cmd, e)
    ELSE [resp |-> RespError("Parse error"), eng |-> e]

ServerLines ==
    { <<"G", "E", "T", " ", "a">>,
      <<"S", "E", "T", " ", "a", " ", "d", "g", "=", "=">>,
      <<"D", "E", "L", " ", "a">>,
      <<" ">> }

ServerLogs == { <<>>, << to_aof_entry(OpPut(<<"a">>, <<118>>)) >> }

\* Everything but the listener, the connection, the engine and the phase.
serverRest ==
    << config, aofVars, disk_ok, snapFileVars, snapTaskVars, rstats, callerVars,
       ncrash, ghostVars, snapDirVars, nsnap_ok, engCallVars, wres, concVars,
       submitted, disp, chan >>

\* A start that binds the listener without waiting for BlazeKVDB::new.
ServerStartEarly ==
    /\ phase \in {"recover_snapshot", "recover_aof", "running"}
    /\ listener = "none"
    /\ listener' = "bound"
    /\ UNCHANGED << engine, phase, conn, serverRest >>

\* main: BlazeKVDB::new returned Ok; TcpServer::start binds the listener.
ServerStart ==
    /\ phase = "running"
    /\ listener = "none"
    /\ listener' = "bound"
    /\ UNCHANGED << engine, phase, conn, serverRest >>

\* accept_connections: listener.accept() and the spawn of the handler.
Accept ==
    /\ phase = "running"
    /\ listener = "bound"
    /\ conn.st = "none"
    /\ conn' = [conn EXCEPT !.st = "open"]
    /\ UNCHANGED << engine, phase, listener, serverRest >>

\* The client writes a line to its socket.
ClientSend(line) ==
    /\ conn.st = "open"
    /\ phase \in {"running", "stopping"}
    /\ Len(conn.sent) < MaxConnLines
    /\ conn' = [conn EXCEPT !.inbox = Append(@, line), !.sent = Append(@, line)]
    /\ UNCHANGED << engine, phase, listener, serverRest >>

\* A handler that reads the next line whether or not the last response
\* has been written.
ConnReadAhead ==
    /\ conn.st = "open"
    /\ phase \in {"running", "stopping"}
    /\ conn.inbox # <<>>
    /\ LET message == Trim(Head(conn.inbox)) IN
       conn' = IF Len(message) = 0
               THEN [conn EXCEPT !.inbox = Tail(@)]
               ELSE [conn EXCEPT !.inbox = Tail(@), !.cur = message,
                                 !.handled = Append(@, message),
                                 !.pc = "process"]
    /\ UNCHANGED << engine, phase, listener, serverRest >>

\* handle_connection: read_until, trim, skip an empty message.
ConnRead ==
    /\ conn.st = "open" /\ conn.pc = "read"
    /\ phase \in {"running", "stopping"}
    /\ conn.inbox # <<>>
    /\ LET message == Trim(Head(conn.inbox)) IN
       conn' = IF Len(message) = 0
               THEN [conn EXCEPT !.inbox = Tail(@)]
               ELSE [conn EXCEPT !.inbox = Tail(@), !.cur = message,
                                 !.handled = Append(@, message),
                                 !.pc = "process"]
    /\ UNCHANGED << engine, phase, listener, serverRest >>

\* handle_connection: process_command.
ConnProcess ==
    /\ conn.st = "open" /\ conn.pc = "process"
    /\ phase \in {"running", "stopping"}
    /\ LET r == process_command(conn.cur, engine) IN
       /\ engine' = r.eng
       /\ conn' = [conn EXCEPT !.resp = r.resp, !.pc = "send"]
    /\ UNCHANGED << phase, listener, serverRest >>

\* handle_connection: send_response, then back to the top of the loop.
ConnSend ==
    /\ conn.st = "open" /\ conn.pc = "send"
    /\ phase \in {"running", "stopping"}
    /\ conn' = [conn EXCEPT
                  !.outbox = Append(@, [line |-> conn.cur, resp |-> conn.resp]),
                  !.pc = "read"]
    /\ UNCHANGED << engine, phase, listener, serverRest >>

\* SIGINT/SIGTERM: the select! in TcpServer::start takes the shutdown
\* branch, the accept loop and its listener are dropped, start returns.
Shutdown ==
    /\ phase = "running"
    /\ listener = "bound"
    /\ phase' = "stopping"
    /\ listener' = "closed"
    /\ UNCHANGED << engine, conn, serverRest >>

\* main returns Ok(()): the runtime is dropped and with it every spawned
\* task, wherever it stands.
ProcessExit ==
    /\ phase = "stopping"
    /\ phase' = "exited"
    /\ UNCHANGED << engine, listener, conn, serverRest >>

InitServer ==
    \E m \in MaxMemoryChoices, log \in ServerLogs, snap \in RecoverSnapshots,
       torn \in BOOLEAN :
        /\ torn => snap # <<>>
        /\ InitDir([max_memory |-> m, fsync_every |-> 0], 0, "recover_snapshot",
                   log, snap, torn)

NextServer ==
    \/ RecoverSnapshot
    \/ RecoverAof
    \/ ServerStart
    \/ Accept
    \/ \E line \in ServerLines : ClientSend(line)
    \/ ConnRead
    \/ ConnProcess
    \/ ConnSend
    \/ Shutdown
    \/ ProcessExit

SpecServer == InitServer /\ [][NextServer]_vars

\* C24: whenever the listener is bound or a connection has been accepted,
\* recovery has completed successfully; a process whose recovery failed
\* never binds the listener and never accepts a connection.
C24_NoAcceptBeforeRecovery ==
    (listener # "none" \/ conn.st # "none")
        => /\ phase \in {"running", "stopping", "exited"}
           /\ rstats.ok
           /\ rstats.snapshot_loaded = (snap_latest # <<>>)
           /\ rstats.aof_operations_total = Len(read_operations(files[live]))

\* A connection was accepted after a recovery that restored a snapshot
\* and replayed a log record.
C24_Witness ==
    /\ conn.st = "open"
    /\ rstats.snapshot_loaded
    /\ rstats.aof_operations_replayed = 1

\* A recovery failed on a torn snapshot and the listener was never bound.
C24_WitnessFailed ==
    /\ phase = "failed" /\ latest_torn /\ listener = "none"

\* C25: after the shutdown signal no connection is accepted, and when the
\* process exits no command is in flight: every line the handler has
\* read has had its response sent.
C25_GracefulShutdown ==
    [][/\ phase \in {"stopping", "exited"} => conn'.st = conn.st
       /\ phase' = "exited" => /\ conn'.pc = "read"
                               /\ Len(conn'.outbox) = Len(conn'.handled)
      ]_vars

\* The non-empty lines among the first n lines of a sequence, trimmed.
RECURSIVE Requests(_, _)
Requests(lines, n) ==
    IF n = 0 THEN <<>>
    ELSE LET m == Trim(lines[n]) IN
         IF Len(m) = 0 THEN Requests(lines, n - 1)
         ELSE Append(Requests(lines, n - 1), m)

\* C26: on a connection the lines are taken in arrival order, there is
\* exactly one response per non-empty line and none for an empty one,
\* responses are written in request order, and a line is read only after
\* the response to the line before it has been written.
C26_ConnectionInOrder ==
    LET nread == Len(conn.sent) - Len(conn.inbox) IN
    /\ conn.inbox = SubSeq(conn.sent, nread + 1, Len(conn.sent))
    /\ conn.handled = Requests(conn.sent, nread)
    /\ Len(conn.outbox) = Len(conn.handled) - (IF conn.pc = "read" THEN 0 ELSE 1)
    /\ \A i \in 1..Len(conn.outbox) : conn.outbox[i].line = conn.handled[i]

\* Three lines, one of them empty, were sent at once and two responses
\* came back in order.
C26_Witness ==
    /\ Len(conn.sent) = 3 /\ conn.inbox = <<>> /\ conn.pc = "read"
    /\ Len(conn.outbox) = 2
    /\ conn.sent[2] = <<" ">>
    /\ conn.outbox[1].resp = RespOk
    /\ conn.outbox[2].resp = RespValue(<<118>>)

(***************************************************************************)
(* CommandDispatcher with middleware: execute and execute_batch, step by   *)
(* step (commands/mod.rs).                                                 *)
(***************************************************************************)
MiddlewareIds == {"m1", "m2"}

Batches ==
    { <<>>,
      << CmdSet(<<"a">>, <<118>>, FALSE), CmdGet(<<"a">>),
         CmdSet(<<"a">>, <<119>>, FALSE), CmdGet(<<"a">> ) >>,
      << CmdGet(<<"a">>), CmdSet(<<>>, <<118>>, FALSE), CmdDelete(<<"a">>) >>,
      << CmdSet(<<"b">>, <<>>, FALSE), CmdExist(<<"b">>) >> }

\* Everything but the dispatcher and the engine.
dispRest ==
    << config, aofVars, disk_ok, snapFileVars, snapTaskVars, phase, rstats,
       callerVars, ncrash, ghostVars, snapDirVars, nsnap_ok, engCallVars, wres,
       concVars, submitted, listener, conn, chan >>

EvValidate == <<"validate", "">>
EvBefore(m) == <<"before_execute", m>>
EvHandler == <<"execute", "">>
EvAfter(m) == <<"after_execute", m>>

\* The response a middleware short-circuits with.
ShortCircuit(m) == RespError(<<"rejected by", m>>)

\* CommandDispatcher::with_middleware.
WithMiddleware(m) ==
    /\ disp.pc = "idle"
    /\ Len(disp.mw) < MaxMiddleware
    /\ disp' = [disp EXCEPT !.mw = Append(@, m)]
    /\ UNCHANGED << engine, dispRest >>

\* Where execute_batch goes after a response was pushed at index n - 1.
NextInBatch(d, n) == IF n > Len(d.batch) THEN "idle" ELSE "validate"

\* execute_batch is called: responses = Vec::with_capacity, first command.
BatchCall(commands) ==
    /\ disp.pc = "idle"
    /\ disp.ncalls < MaxBatchCalls
    /\ disp' = [disp EXCEPT !.batch = commands, !.i = 1, !.responses = <<>>,
                            !.trace = <<>>, !.beng = engine,
                            !.ncalls = @ + 1,
                            !.pc = NextInBatch([batch |-> commands], 1)]
    /\ UNCHANGED << engine, dispRest >>

\* execute: into_handler and handler.validate().
ExecValidate ==
    /\ disp.pc = "validate"
    /\ LET c == disp.batch[disp.i] IN
       disp' = IF Validate(c) # "ok"
               THEN [disp EXCEPT !.trace = <<EvValidate>>, !.eng0 = engine,
                                 !.err = 0,
                                 !.resp = RespError(Validate(c)),
                                 !.pc = "return"]
               ELSE [disp EXCEPT !.trace = <<EvValidate>>, !.eng0 = engine,
                                 !.err = 0,
                                 !.j = 1,
                                 !.pc = IF disp.mw = <<>> THEN "handler"
                                        ELSE "before"]
    /\ UNCHANGED << engine, dispRest >>

\* A pre-execution loop that goes on after a middleware returned Err.
ExecBeforeNoReturn ==
    /\ disp.pc = "before"
    /\ \E ok \in BOOLEAN :
        disp' = [disp EXCEPT
                   !.trace = Append(@, EvBefore(disp.mw[disp.j])),
                   !.resp = IF ok THEN @ ELSE ShortCircuit(disp.mw[disp.j]),
                   !.err = IF ok THEN @ ELSE disp.j,
                   !.j = @ + 1,
                   !.pc = IF disp.j = Len(disp.mw) THEN "handler" ELSE "before"]
    /\ UNCHANGED << engine, dispRest >>

\* execute: one iteration of the pre-execution loop; the middleware
\* answers Ok(()) or Err(response); err notes which hook answered Err.
ExecBefore ==
    /\ disp.pc = "before"
    /\ \E ok \in BOOLEAN :
        disp' = IF ok
                THEN [disp EXCEPT
                        !.trace = Append(@, EvBefore(disp.mw[disp.j])),
                        !.j = @ + 1,
                        !.pc = IF disp.j = Len(disp.mw) THEN "handler"
                               ELSE "before"]
                ELSE [disp EXCEPT
                        !.trace = Append(@, EvBefore(disp.mw[disp.j])),
                        !.resp = ShortCircuit(disp.mw[disp.j]),
                        !.err = disp.j,
                        !.pc = "return"]
    /\ UNCHANGED << engine, dispRest >>

\* execute: handler.execute(storage).
ExecHandler ==
    /\ disp.pc = "handler"
    /\ LET r == HandlerExecute(disp.batch[disp.i], engine) IN
       /\ engine' = r.eng
       /\ disp' = [disp EXCEPT !.trace = Append(@, EvHandler),
                               !.resp = r.resp, !.j = 1,
                               !.pc = IF disp.mw = <<>> THEN "return"
                                      ELSE "after"]
    /\ UNCHANGED dispRest

\* execute: one iteration of the post-execution loop.
ExecAfter ==
    /\ disp.pc = "after"
    /\ disp' = [disp EXCEPT
                  !.trace = Append(@, EvAfter(disp.mw[disp.j])),
                  !.j = @ + 1,
                  !.pc = IF disp.j = Len(disp.mw) THEN "return" ELSE "after"]
    /\ UNCHANGED << engine, dispRest >>

\* An execute_batch that puts each response in front of the earlier ones.
BatchPushFront ==
    /\ disp.pc = "return"
    /\ disp' = [disp EXCEPT !.responses = <<disp.resp>> \o @,
                            !.i = @ + 1,
                            !.pc = NextInBatch(disp, disp.i + 1)]
    /\ UNCHANGED << engine, dispRest >>

\* execute returns; execute_batch pushes the response and takes the next
\* command, or returns the vector.
BatchPush ==
    /\ disp.pc = "return"
    /\ disp' = [disp EXCEPT !.responses = Append(@, disp.resp),
                            !.i = @ + 1,
                            !.pc = NextInBatch(disp, disp.i + 1)]
    /\ UNCHANGED << engine, dispRest >>

InitDispatch ==
    \E m \in MaxMemoryChoices :
        InitState([max_memory |-> m, fsync_every |-> 0], 0, "running", <<>>, <<>>)

NextDispatch ==
    \/ \E m \in MiddlewareIds : WithMiddleware(m)
    \/ \E commands \in Batches : BatchCall(commands)
    \/ ExecValidate
    \/ ExecBefore
    \/ ExecHandler
    \/ ExecAfter
    \/ BatchPush

SpecDispatch == InitDispatch /\ [][NextDispatch]_vars

\* One command after another through CommandDispatcher::execute without
\* middleware, from engine e: [resps, eng].
RECURSIVE SequentialRun(_, _, _)
SequentialRun(commands, n, e) ==
    IF n = 0 THEN [resps |-> <<>>, eng |-> e]
    ELSE LET before == SequentialRun(commands, n - 1, e)
             r == DispatcherExecute(commands[n], before.eng)
         IN  [resps |-> Append(before.resps, r.resp), eng |-> r.eng]

\* C27: execute_batch has always produced one response per command taken
\* so far, at the command's index; without middleware the responses and
\* the engine are those of executing the commands one after another in
\* submission order, each on the engine the earlier ones left; the
\* returned vector has the length of the batch.
C27_BatchSequential ==
    disp.ncalls > 0 =>
        /\ disp.pc = "idle" => Len(disp.responses) = Len(disp.batch)
        /\ disp.pc # "idle" => Len(disp.responses) = disp.i - 1
        /\ (disp.mw = <<>> /\ disp.pc \in {"idle", "validate"}) =>
              LET run == SequentialRun(disp.batch, Len(disp.responses), disp.beng)
              IN  /\ disp.responses = run.resps
                  /\ engine = run.eng

\* The batch [SET a v1, GET a, SET a v2, GET a] has returned
\* [Ok, Value v1, Ok, Value v2].
C27_Witness ==
    /\ disp.pc = "idle" /\ disp.mw = <<>>
    /\ Len(disp.batch) = 4
    /\ disp.responses =
          << RespOk, RespValue(<<118>>), RespOk, RespValue(<<119>>) >>

\* The events of a whole execute with middleware list mw.
FullTrace(mw) ==
    <<EvValidate>> \o [k \in 1..Len(mw) |-> EvBefore(mw[k])]
        \o <<EvHandler>> \o [k \in 1..Len(mw) |-> EvAfter(mw[k])]

\* C28: the steps of an execute are always a prefix of validate, the
\* before_execute hooks in insertion order, the handler, the
\* after_execute hooks in insertion order. When execute returns, either
\* validation failed, only validate ran, the engine is as it was and the
\* validation error is returned; or hook k answered with a response, only
\* validate and hooks 1..k ran, the engine is as it was and that response
\* is returned; or no hook answered with a response, every step ran and
\* the handler's response is returned.
C28_DispatchOrder ==
    disp.pc \in {"before", "handler", "after", "return"} =>
        LET c == disp.batch[disp.i]
            n == Len(disp.mw)
            t == disp.trace
            full == FullTrace(disp.mw)
        IN  /\ Len(t) <= Len(full) /\ t = SubSeq(full, 1, Len(t))
            /\ disp.pc = "return" =>
                 \/ /\ Validate(c) # "ok"
                    /\ t = <<EvValidate>>
                    /\ engine = disp.eng0
                    /\ disp.resp = RespError(Validate(c))
                 \/ /\ Validate(c) = "ok"
                    /\ disp.err \in 1..n
                    /\ t = SubSeq(full, 1, disp.err + 1)
                    /\ engine = disp.eng0
                    /\ disp.resp = ShortCircuit(disp.mw[disp.err])
                 \/ /\ Validate(c) = "ok"
                    /\ disp.err = 0
                    /\ t = full
                    /\ disp.resp = HandlerExecute(c, disp.eng0).resp
                    /\ engine = HandlerExecute(c, disp.eng0).eng

\* With m2 registered before m1, a GET ran through both hooks on each
\* side of the handler and changed the engine's counters.
C28_Witness ==
    /\ disp.pc = "return" /\ disp.mw = <<"m2", "m1">>
    /\ disp.batch[disp.i].name = "GET"
    /\ disp.trace = FullTrace(<<"m2", "m1">>)
    /\ engine # disp.eng0

\* The first of two hooks short-circuited a SET.
C28_WitnessShortCircuit ==
    /\ disp.pc = "return" /\ Len(disp.mw) = 2
    /\ disp.batch[disp.i].name = "SET"
    /\ disp.trace = <<EvValidate, EvBefore(disp.mw[1])>>
    /\ disp.resp = ShortCircuit(disp.mw[1])

\* Validation failed with two hooks registered.
C28_WitnessInvalid ==
    /\ disp.pc = "return" /\ Len(disp.mw) = 2
    /\ disp.trace = <<EvValidate>>
    /\ disp.resp = RespError("Key cannot be empty")

(***************************************************************************)
(* Two tasks calling BlazeKVDB::execute on the same key (bootstrap.rs).    *)
(***************************************************************************)
SameKeyCommands ==
    {CmdSet(<<"a">>, <<118>>, FALSE), CmdSet(<<"a">>, <<119>>, FALSE),
     CmdDelete(<<"a">>)}

InitExecConc ==
    InitWith([max_memory |-> 1000, fsync_every |-> 0], MaxConcWrites)

NextExecConc ==
    \/ \E w \in ConcWriters, command \in SameKeyCommands : ExecLog(w, command)
    \/ \E w \in ConcWriters : ExecDispatch(w)
    \/ WriterStep

SpecExecConc == InitExecConc /\ [][NextExecConc]_vars

\* C29: once both writers have returned and the background writer has
\* emptied its queue and buffer, replaying the log into an empty store
\* gives the live value of every key.
C29_LogOrderIsApplyOrder ==
    (AllIdle /\ queue = <<>> /\ wbuf = <<>>)
        => ApplyOps(EmptyMap, read_operations(files[live])) = engine.data

(***************************************************************************)
(* The background writer after a compaction, under SpecDurable.            *)
(***************************************************************************)
\* The background writer takes an operation that was submitted after the
\* last compaction off the channel and flushes its record in this step.
WriterFlushes ==
    /\ phase = "running" /\ phase' = "running"
    /\ pre_rename = 0
    /\ queue # <<>> /\ queue' = Tail(queue)
    /\ operation_logged' = operation_logged + 1
    /\ wbuf' = <<>>

\* C30: whenever the background writer flushes the record of an
\* operation submitted after compact has renamed the rewritten file over
\* the live log (or with no compaction at all), the record is appended to
\* the file at the live log path.
C30_WriterFollowsRename ==
    [][WriterFlushes =>
          files'[live] = files[live] \o Append(wbuf, to_aof_entry(Head(queue)))
      ]_vars

(***************************************************************************)
(* Writes that overlap create_snapshot, under SpecDurable.                 *)
(***************************************************************************)
\* A run of RecoveryManager::recover returns Ok in this step, after a
\* crash that found the writer's queue drained, in a process whose
\* writes all went through execute.
RecoveredDrained ==
    /\ phase \in {"recover_snapshot", "recover_aof"}
    /\ phase' = "running"
    /\ crash_drained
    /\ done[TcpConn] = 0

\* C31: a key captured by the enumeration of create_snapshot whose delete
\* was acknowledged while create_snapshot was still running, and that no
\* later acknowledged set brought back, is absent after a crash and
\* recovery.
C31_DeletedKeyStaysDeleted ==
    [][RecoveredDrained =>
          \A k \in snap_win.deleted :
              k \notin DOMAIN acked => k \notin DOMAIN engine'.data
      ]_vars

\* The key-to-value state that the published snapshot and the compacted
\* log hold between them.
OnDisk == ApplyOps(snap_latest[1].data, read_operations(files[live]))

\* The operation changes what the map holds for its key.
Changes(m, op) ==
    IF op.type = "Put" THEN ~(op.key \in DOMAIN m /\ m[op.key] = op.value)
    ELSE op.key \in DOMAIN m

\* Every operation accepted between the compaction scan and the rename
\* that changes both the published snapshot's state and the state the
\* compaction wrote also changes m: m does not show the operation.
WindowLost(written, m) ==
    \A i \in 1..Len(snap_win.ops) :
        (/\ Changes(snap_latest[1].data, snap_win.ops[i])
         /\ Changes(written, snap_win.ops[i]))
            => Changes(m, snap_win.ops[i])

\* C32: once compact has renamed the rewritten file over the live log, an
\* operation that log_operation accepted after the compaction scan, and
\* whose effect neither the snapshot nor the scanned state already held,
\* is in neither the published snapshot nor the compacted log; after a
\* crash and a recovery that returns Ok, the recovered state does not
\* show the operation.
C32_WindowOperationLost ==
    [][/\ (snap_win.renamed /\ phase = "running" /\ ncrash = 0
             /\ snap_pc = "idle" /\ done[TcpConn] = 0)
          => WindowLost(compact_state, OnDisk)
       /\ (RecoveredDrained /\ snap_win.renamed)
          => WindowLost(ApplyOps(EmptyMap, read_operations(files[live])),
                        engine'.data)
      ]_vars

\* A delete of a was accepted and acknowledged between the compaction scan
\* and the rename; after the crash and the recovery a is back.
C32_Witness ==
    /\ phase = "running" /\ ncrash = 1 /\ crash_drained
    /\ snap_win.renamed
    /\ snap_win.ops = << OpDelete(<<"a">>) >>
    /\ <<"a">> \notin DOMAIN acked
    /\ <<"a">> \in DOMAIN engine.data

(***************************************************************************)
(* The AOL write lock of compact_aof, under SpecDurable.                   *)
(***************************************************************************)
\* No log_operation call enqueues an operation in this step.
NoSubmission == Len(queue') <= Len(queue)

\* C33: while compact_aof holds the AOL write lock, no log_operation call
\* proceeds and no record is appended to the log file.
C33_NoAppendDuringCompaction ==
    [][(phase = "running" /\ phase' = "running" /\ aof_locked)
          => /\ NoSubmission
             /\ files'[live] = files[live]
      ]_vars

\* The half of C33 that the lock does guarantee: no log_operation call
\* proceeds while it is held.
C33_NoSubmissionDuringCompaction ==
    [][(phase = "running" /\ phase' = "running" /\ aof_locked)
          => NoSubmission]_vars

(***************************************************************************)
(* The memory limit under concurrent set calls, under SpecEngineConc.      *)
(***************************************************************************)
\* The set calls that have passed check_memory_limit and have not yet
\* done their update_memory.
InFlightSets == {t \in Threads : tpc[t] \in {"set_lock", "set_insert", "set_total"}}

\* C34: the process-wide memory total never exceeds max_memory by more
\* than the sum of the footprints of the set calls that have passed the
\* admission check and not yet updated the counter.
C34_OvershootBounded ==
    engine.total_memory
        <= engine.max_memory
             + SumOver(InFlightSets, [t \in Threads |-> tloc[t].size])

(***************************************************************************)
(* SpecFsync: one task submitting, the background writer under Always and  *)
(* EveryN(n), and a crash (aof.rs, manager.rs).                            *)
(***************************************************************************)
EveryNChoices == {1, 2, 3}

\* PersistenceManager::new: Always => 0, EveryN(n) => n.
InitFsync ==
    \E f \in {0} \cup EveryNChoices :
        InitState([max_memory |-> 1000, fsync_every |-> f], 0, "running", <<>>, <<>>)

NextFsync ==
    \/ \E op \in SubmitOps : LogSubmit(op)
    \/ WriterStep
    \/ Crash

SpecFsync == InitFsync /\ [][NextFsync]_vars

\* The records the writer has written (write_all) since the process
\* started, flushed or not.
WrittenRecords == [i \in 1..operation_logged |-> to_aof_entry(submitted[i])]

\* C35: under EveryN(n) the records the writer has written are the file
\* followed by the unflushed buffer, and the buffer never holds more than
\* n - 1 of them; so a crash leaves in the file all but at most the last
\* n - 1 written records.  With n = 1 the buffer is empty after every
\* write, as under Always.
C35_EveryNLosesLessThanN ==
    [][/\ phase' = "running" =>
            /\ files'[live'] \o wbuf' = WrittenRecords'
            /\ config.fsync_every \in EveryNChoices
                  => Len(wbuf') <= config.fsync_every - 1
            /\ config.fsync_every \in {0, 1} => wbuf' = <<>>
       /\ (phase = "running" /\ phase' = "down"
                /\ config.fsync_every \in EveryNChoices) =>
            /\ Len(files'[live']) >= operation_logged - (config.fsync_every - 1)
            /\ files'[live'] = SubSeq(WrittenRecords, 1, Len(files'[live']))
      ]_vars

\* Under EveryN(3) the writer has written two records and neither is in
\* the file yet: a crash now loses n - 1 records.
C35_Witness ==
    /\ phase = "running" /\ config.fsync_every = 3
    /\ operation_logged = 2 /\ Len(wbuf) = 2 /\ files[live] = <<>>

\* Under EveryN(3) the third record was written and all three are in the
\* file.
C35_WitnessFlushed ==
    /\ phase = "running" /\ config.fsync_every = 3
    /\ operation_logged = 3 /\ Len(files[live]) = 3 /\ wbuf = <<>>

\* Under EveryN(1) two records were written and both are in the file.
C35_WitnessEveryOne ==
    /\ phase = "running" /\ config.fsync_every = 1
    /\ operation_logged = 2 /\ Len(files[live]) = 2

(***************************************************************************)
(* SpecDrain: the AOL channel is closed and the background writer ends     *)
(* (AppendOnlyFile::start_background_writer).                              *)
(***************************************************************************)
\* Everything but the AOL, the channel and the submissions.
drainRest ==
    << engine, config, disk_ok, snapFileVars, snapTaskVars, phase, rstats,
       callerVars, ncrash, ghostVars, snapDirVars, nsnap_ok, engCallVars, wres,
       concVars, listener, conn, disp >>

\* log_operation while the Sender is alive.
DrainSubmit(op) == ~chan.closed /\ LogSubmit(op)

\* The last Sender is dropped.
CloseProducers ==
    /\ ~chan.closed
    /\ chan' = [chan EXCEPT !.closed = TRUE]
    /\ UNCHANGED << drainRest, aofVars, submitted >>

\* rx.recv_async() returns Ok: one iteration of the writer loop.
DrainStep == chan.writer = "running" /\ WriterStep

\* rx.recv_async() returns Err(Disconnected): the loop ends and the task
\* returns; its BufWriter is dropped, and a tokio BufWriter discards its
\* buffer when dropped.
WriterTerminate ==
    /\ chan.writer = "running" /\ chan.closed /\ queue = <<>>
    /\ chan' = [chan EXCEPT !.writer = "stopped"]
    /\ wbuf' = <<>>
    /\ UNCHANGED << drainRest, queue, files, live, tmp, bg_writer, aof_writer,
                    operation_logged, aof_locked, submitted >>

InitDrain ==
    \E f \in FsyncEveryChoices :
        InitState([max_memory |-> 1000, fsync_every |-> f], 0, "running", <<>>, <<>>)

NextDrain ==
    \/ \E op \in SubmitOps : DrainSubmit(op)
    \/ CloseProducers
    \/ DrainStep
    \/ WriterTerminate

SpecDrain == InitDrain /\ [][NextDrain]_vars

\* C36: once the background writer has terminated, the queue is empty and
\* the records of all submitted operations, those still queued at the
\* close included, are in the log file in submission order.
C36_DrainThenTerminate ==
    chan.writer = "stopped" =>
        /\ queue = <<>>
        /\ files[live] = [i \in 1..Len(submitted) |-> to_aof_entry(submitted[i])]

\* The part of C36 that holds under every policy: the writer terminates
\* only after the close, with the queue empty, having taken every
\* operation off the queue in submission order.
C36_QueueDrainedInOrder ==
    chan.writer = "stopped" =>
        /\ chan.closed /\ queue = <<>>
        /\ operation_logged = Len(submitted)
        /\ IsSubsequence(files[live],
                         [i \in 1..Len(submitted) |-> to_aof_entry(submitted[i])])

(***************************************************************************)
(* The shard guards of every MemoryEngine operation: get, exists, scan,    *)
(* stats and health_check take shard.data.read(), set and delete take      *)
(* shard.data.write() (storage/engine/memory.rs).                          *)
(***************************************************************************)
MaxLockCalls == 3
LockKeys == {<<"a">>, <<"b">>}
ReadOps == {"get", "exists", "scan", "stats", "health_check"}

\* The shards a reading operation visits, in the order it visits them.
ShardsToVisit(op, k) ==
    IF op \in {"get", "exists"} THEN << get_shard_index(k) >>
    ELSE IF op = "health_check" THEN << 0 >>
    ELSE [i \in 1..ShardCount |-> i - 1]

\* The shard whose guard the reading operation takes next, or holds.
ReadShard(t) == Head(tloc[t].todo)

\* A reading operation is called; get counts itself before it locks.
ConcReadCall(t, op, k) ==
    /\ phase = "running" /\ tpc[t] = "idle" /\ nconc < MaxLockCalls
    /\ nconc' = nconc + 1
    /\ tloc' = [tloc EXCEPT ![t] =
                   [key |-> k, value |-> <<>>, size |-> 0, old_size |-> 0,
                    op |-> op, todo |-> ShardsToVisit(op, k), keys |-> <<>>]]
    /\ engine' = IF op = "get"
                 THEN [engine EXCEPT !.total_operations = @ + 1] ELSE engine
    /\ Goto(t, "read_lock")
    /\ UNCHANGED << elock, rlock, lockRest >>

\* shard.data.read(): shared with readers, excluded by a writer.
ConcReadLock(t) ==
    /\ tpc[t] = "read_lock" /\ elock[ReadShard(t)] = "free"
    /\ rlock' = [rlock EXCEPT ![ReadShard(t)] = @ \cup {t}]
    /\ Goto(t, "read_shard")
    /\ UNCHANGED << engine, tloc, elock, nconc, lockRest >>

\* What the operation does under the guard of shard s.
ReadBody(t, s) ==
    LET op == tloc[t].op
        k  == tloc[t].key
        here == ShardKeys(engine, s)
    IN  /\ engine' = IF op # "get" THEN engine
                     ELSE IF k \in here
                          THEN [engine EXCEPT !.hit_count = @ + 1]
                          ELSE [engine EXCEPT !.miss_count = @ + 1]
        /\ tloc' = [tloc EXCEPT
               ![t].todo = Tail(@),
               ![t].value = IF op = "get" /\ k \in here THEN engine.data[k] ELSE @,
               ![t].size = IF op = "stats" THEN @ + Cardinality(here)
                           ELSE IF op \in {"get", "exists"} /\ k \in here THEN 1
                           ELSE @,
               ![t].keys = IF op = "scan"
                           THEN @ \o SelectPrefix(IterOrder(here), k) ELSE @]

AfterShard(t) ==
    IF Len(tloc[t].todo) > 1 THEN Goto(t, "read_lock")
    ELSE IF tloc[t].op = "stats" THEN Goto(t, "read_counters")
    ELSE Goto(t, "idle")

\* A loop that keeps every guard it took until it returns.
ConcReadShardKeep(t) ==
    /\ tpc[t] = "read_shard"
    /\ ReadBody(t, ReadShard(t))
    /\ rlock' = IF Len(tloc[t].todo) > 1 THEN rlock
                ELSE [s \in Shards |-> rlock[s] \ {t}]
    /\ AfterShard(t)
    /\ UNCHANGED << elock, nconc, lockRest >>

\* The body under the guard; the guard is dropped at the end of the loop
\* iteration (scan, stats) or on return (get, exists, health_check).
ConcReadShard(t) ==
    /\ tpc[t] = "read_shard"
    /\ ReadBody(t, ReadShard(t))
    /\ rlock' = [rlock EXCEPT ![ReadShard(t)] = @ \ {t}]
    /\ AfterShard(t)
    /\ UNCHANGED << elock, nconc, lockRest >>

\* stats: the atomic loads after the loop, no guard held.
ConcStatsLoad(t) ==
    /\ tpc[t] = "read_counters"
    /\ tloc' = [tloc EXCEPT ![t].old_size = engine.hit_count + engine.miss_count]
    /\ Goto(t, "idle")
    /\ UNCHANGED << engine, elock, rlock, nconc, lockRest >>

\* The steps of a call in progress.
ConcStep(t) ==
    \/ ConcSetLock(t)
    \/ ConcSetInsert(t)
    \/ ConcSetTotal(t)
    \/ ConcSetShardAdd(t)
    \/ ConcSetShardSub(t)
    \/ ConcSetReturn(t)
    \/ ConcDeleteLock(t)
    \/ ConcDeleteRemove(t)
    \/ ConcDeleteTotal(t)
    \/ ConcDeleteShardSub(t)
    \/ ConcDeleteReturn(t)
    \/ ConcReadLock(t)
    \/ ConcReadShard(t)
    \/ ConcStatsLoad(t)

InitEngineLocks ==
    InitState([max_memory |-> 1000, fsync_every |-> 0], 0, "running", <<>>, <<>>)

NextEngineLocks ==
    \E t \in Threads :
        \/ \E k \in LockKeys : nconc < MaxLockCalls /\ ConcSetCheck(t, k, <<118>>)
        \/ \E k \in LockKeys : nconc < MaxLockCalls /\ ConcDeleteCall(t, k)
        \/ \E op \in ReadOps :
               \E k \in IF op \in {"stats", "health_check"} THEN {<<>>} ELSE LockKeys :
                   ConcReadCall(t, op, k)
        \/ ConcStep(t)

SpecEngineLocks == InitEngineLocks /\ [][NextEngineLocks]_vars

HeldLocks(t) == {s \in Shards : elock[s] = t \/ t \in rlock[s]}

LockLabels == {"set_lock", "del_lock", "read_lock"}

\* The shard a task at a lock label asks for.
WantedShard(t) == IF tpc[t] = "read_lock" THEN ReadShard(t) ELSE MyShard(t)

\* C37: a task holds at most one shard guard at any time and asks for a
\* guard only while it holds none; the guard it asks for is granted as soon
\* as that one shard allows it, whatever is held on the other shards; and
\* whenever some call is in progress, some call in progress can take a step.
C37_OneShardLock ==
    /\ \A t \in Threads :
           /\ Cardinality(HeldLocks(t)) <= 1
           /\ tpc[t] \in LockLabels \cup {"idle", "read_counters"}
                  => HeldLocks(t) = {}
           /\ tpc[t] \in LockLabels =>
                  LET s == WantedShard(t) IN
                  (/\ elock[s] = "free"
                   /\ (tpc[t] = "read_lock" \/ rlock[s] = {}))
                      => ENABLED ConcStep(t)
    /\ (\E t \in Threads : tpc[t] # "idle")
           => \E t \in Threads : tpc[t] # "idle" /\ ENABLED ConcStep(t)

\* A scan holds the read guard of the second shard while a set holds the
\* write guard of the first.
C37_Witness ==
    /\ tpc["t1"] = "read_shard" /\ tloc["t1"].op = "scan"
    /\ ReadShard("t1") = 1 /\ rlock[1] = {"t1"}
    /\ tpc["t2"] = "set_insert" /\ elock[0] = "t2"

\* A task waits for a guard that another task holds.
C37_WitnessBlocked ==
    /\ tpc["t1"] = "read_lock" /\ ReadShard("t1") = 0
    /\ elock[0] = "t2"
    /\ ~ENABLED ConcStep("t1")

(***************************************************************************)
(* The hit and miss counters under direct engine calls.                    *)
(***************************************************************************)
\* C38: a get raises hit_count by one and leaves miss_count when its key is
\* present, and the reverse when it is absent; set, delete, exists, scan
\* and stats leave both; hit_count + miss_count is the number of gets made;
\* hit_rate is hits over gets, and 0 when no get was made.
C38_OnlyGetCounts ==
    [][neng' = neng + 1 =>
          /\ EngReturns("get") =>
                 LET present == eres'.key \in DOMAIN engine.data IN
                 /\ engine'.hit_count
                        = engine.hit_count + (IF present THEN 1 ELSE 0)
                 /\ engine'.miss_count
                        = engine.miss_count + (IF present THEN 0 ELSE 1)
          /\ ~EngReturns("get") =>
                 /\ engine'.hit_count = engine.hit_count
                 /\ engine'.miss_count = engine.miss_count
          /\ engine'.hit_count = gets'.found
          /\ engine'.miss_count = gets'.absent
          /\ EngReturns("stats") =>
                 LET n == gets.found + gets.absent IN
                 hit_rate(engine') = IF n = 0 THEN 0
                                     ELSE (gets.found * 1000) \div n
      ]_vars

\* stats after one get that found its key and two that did not, with a
\* set and other calls in between.
C38_Witness ==
    /\ eres.op = "stats" /\ gets = [found |-> 1, absent |-> 2]
    /\ hit_rate(engine) = 333
    /\ neng = 5

\* stats before any get.
C38_WitnessNoGet ==
    /\ eres.op = "stats" /\ gets = [found |-> 0, absent |-> 0]
    /\ DOMAIN engine.data # {} /\ hit_rate(engine) = 0

(***************************************************************************)
(* The memory counters under concurrent set and delete.                    *)
(***************************************************************************)
\* C39: under every interleaving of set and delete, no fetch_sub on the
\* process-wide counter or on a shard counter takes away more than the
\* counter holds, so neither ever wraps below zero.
C39_NoUnderflow ==
    /\ engine.total_memory >= 0
    /\ \A s \in Shards : engine.shard_size[s] >= 0
    /\ \A t \in Threads :
           /\ (tpc[t] = "set_total" /\ tloc[t].size < tloc[t].old_size)
                  => tloc[t].old_size - tloc[t].size <= engine.total_memory
           /\ (tpc[t] = "set_shard_sub")
                  => tloc[t].old_size <= engine.shard_size[MyShard(t)]
           /\ tpc[t] = "del_total" => tloc[t].size <= engine.total_memory
           /\ tpc[t] = "del_shard_sub"
                  => tloc[t].size <= engine.shard_size[MyShard(t)]

\* A delete is about to take its entry off the process-wide counter while
\* a set on another shard, replacing a larger entry, is about to shrink it.
C39_Witness ==
    /\ tpc["t1"] = "del_total"
    /\ tpc["t2"] = "set_total" /\ tloc["t2"].size < tloc["t2"].old_size
    /\ engine.total_memory = tloc["t1"].size + tloc["t2"].old_size

\* A delete took the last entry off both counters.
C39_WitnessZero ==
    /\ tpc["t1"] = "del_ops" /\ engine.total_memory = 0
    /\ engine.shard_size[MyShard("t1")] = 0
    /\ nconc = MaxConcCalls

(***************************************************************************)
(* The log across PersistenceManager::recover.                             *)
(***************************************************************************)
\* A step of recover: the snapshot restore, the log replay, or a whole
\* second recover.
RecoverStep ==
    \/ phase \in {"recover_snapshot", "recover_aof"}
    \/ phase = "running" /\ phase' \in {"recovered_again", "failed"}

\* C40: the set and delete calls of snapshot restore and log replay submit
\* nothing to the AOL and write nothing to its file: the log path, the
\* file's content, the channel and the writer's buffer are the same after
\* every step of recover as before it.
C40_RecoveryLeavesLog ==
    [][RecoverStep =>
          /\ live' = live /\ files' = files
          /\ queue' = queue /\ wbuf' = wbuf
          /\ operation_logged' = operation_logged
      ]_vars

\* recover restored a snapshot and replayed three records, a delete among
\* them, and the log still holds the three records and nothing is queued.
C40_Witness ==
    /\ phase = "running" /\ rstats.snapshot_loaded
    /\ rstats.aof_operations_replayed = 3
    /\ Len(files[live]) = 3 /\ queue = <<>>
    /\ \E i \in 1..3 : files[live][i] = to_aof_entry(OpDelete(<<"a">>))
    /\ engine.data # SnapshotMap

====
